---- MODULE Spec2Model ----
(***************************************************************************)
(* Model of the chunked batch pipeline of scripts/master-gemini.py:        *)
(* create_input_chunks / chunk_json_data (planner), process_chunks         *)
(* (orchestrator), execute_single_chunk (chunk runner),                    *)
(* call_gemini_api_with_retry (invoker), save_and_validate_json            *)
(* (validator).                                                            *)
(***************************************************************************)
EXTENDS Integers, Sequences, FiniteSets, TLC

(***************************************************************************)
(* Bounds of the model.                                                    *)
(***************************************************************************)
MaxItems == 3        \* longest input list of the pipeline specification
MaxChunks == 3       \* most chunks one pipeline run plans
MaxRetries == 2      \* largest --max-retries of the pipeline specification
MaxAttempts == 4     \* most outer attempts of one pipeline run, over all its chunks
MaxLen == 4          \* longest list handed to the planner on its own
MaxChunkSize == 3    \* largest --chunk-size
MaxBudget == 3       \* largest max_retries of the invoker on its own
MaxDelayAttempt == 8 \* largest attempt index handed to calculate_delay on its own
Resolution == 4      \* random.random() is drawn from {0, 1/Resolution, ..., 1 - 1/Resolution}
MaxElems == 3        \* longest array handed to the validator on its own
MaxFiles == 2        \* most files of data/output the updater finds
MaxEntries == 2      \* most entries of the files of data/output, in all
MaxParts == 11       \* most part files the splitter makes of one file

(***************************************************************************)
(* Program constants.                                                      *)
(***************************************************************************)
INNER_MAX_RETRIES == 2
DEFAULT_BASE_DELAY == 1
DEFAULT_MAX_DELAY == 60
DEFAULT_BACKOFF_FACTOR == 2   \* max_retries=2 passed to call_gemini_api_with_retry

VARIABLES
    args,               \* args.input, args.output, args.log: directory and stem of each
    delay,              \* calculate_delay: the delays computed so far
    input,              \* content of the file at args.input
    chunk_size,         \* args.chunk_size
    max_retries,        \* args.max_retries
    fs,                 \* the artifacts on disk: path -> content
    pc,                 \* control position of the run
    exit,               \* how execute_mode_with_chunking ended
    chunks,             \* create_input_chunks: chunks
    chunk_paths,        \* create_input_chunks: chunk_paths (returned list)
    i,                  \* loop index (enumerate(..., 1)) of the running loop
    mode,               \* args.mode: selects schema_class and order_func
    successful_chunks,  \* process_chunks: successful_chunks
    failed_chunks,      \* process_chunks: failed_chunks
    overall_attempt,    \* execute_single_chunk: overall_attempt
    api_max_retries,    \* call_gemini_api_with_retry: max_retries
    attempt,            \* call_gemini_api_with_retry: attempt
    last_error,         \* call_gemini_api_with_retry: last_error
    remote,             \* what client.models.generate_content can do: return or raise
    inv,                \* how the invoker ended: "text", "Retryable", "NonRetryable"
    raw_output,         \* the text the invoker returned
    ret,                \* what execute_single_chunk returned to process_chunks
    interrupted,        \* a KeyboardInterrupt broke the loop of process_chunks
    calls,              \* history: remote calls of the current chunk run
    inv_calls,          \* history: remote calls of the current invoker run
    inv_sleeps,         \* history: backoff sleeps of the current invoker run
    outer_sleeps,       \* history: backoff sleeps of the runner's outer loop
    out_writes,         \* history: writes of the output artifact in this chunk run
    attempts,           \* history: one record per outer attempt of this chunk run
    results,            \* history: what the runner returned for each chunk
    json_files,         \* batch-updater, process_files: sorted(OUTPUT_DIR.glob("*.json"))
    file,               \* batch-updater, process_files: position of file in json_files
    entries,            \* batch-updater, process_files: entries of the file
    entry,              \* batch-updater, process_files: position of entry in entries
    all_success,        \* batch-updater, process_files: all_success
    notes,              \* the flashcard store behind AnkiConnect: note id -> tags
    requests,           \* history: the requests anki_request sent for the last entry
    report,             \* history: one record per file process_files has taken up
    split_data,         \* auto-split-merge, split_json_file: data
    idx,                \* auto-split-merge, split_json_file: idx
    part_files,         \* auto-split-merge, merge_json_files: part_files
    pf,                 \* auto-split-merge, merge_json_files: position of pf in part_files
    merged_data         \* auto-split-merge, merge_json_files: merged_data

updaterVars == <<json_files, file, entries, entry, all_success, notes, requests, report>>
splitVars == <<split_data, idx, part_files, pf, merged_data>>
toolVars == <<updaterVars, splitVars>>
\* What the chunk runner never changes: the plan, and the other scripts.
planVarsButDelay == <<args, input, chunk_size, max_retries, mode, remote, exit, chunks, chunk_paths,
                      toolVars>>
planVars == <<planVarsButDelay, delay>>
orchVars == <<successful_chunks, failed_chunks, interrupted, results>>
runVars == <<overall_attempt, ret, outer_sleeps, out_writes, attempts>>
invVars == <<api_max_retries, attempt, last_error, inv, raw_output, calls, inv_calls, inv_sleeps>>
\* What the other scripts never change: the state of master-gemini but the disk.
masterVars == <<args, delay, input, chunk_size, max_retries, remote, exit, chunks, chunk_paths,
                orchVars, runVars, invVars, i>>
vars == <<planVars, orchVars, runVars, invVars, fs, pc, i>>

(***************************************************************************)
(* Helpers.                                                                *)
(***************************************************************************)
Min(a, b) == IF a < b THEN a ELSE b

\* All sequences over S of length at most n.
SeqsUpTo(S, n) == UNION {[1..m -> S] : m \in 0..n}

\* Python slice data[a:b] for 0 <= a <= b (0-based, end exclusive, clamped).
Slice(data, a, b) == SubSeq(data, a + 1, Min(b, Len(data)))

RECURSIVE Flatten(_)
Flatten(ss) == IF ss = <<>> THEN <<>> ELSE Head(ss) \o Flatten(Tail(ss))

\* The file system: a function from the paths that exist to their content.
Exists(f, p) == p \in DOMAIN f
WriteText(f, p, content) == [q \in (DOMAIN f) \cup {p} |-> IF q = p THEN content ELSE f[q]]

(***************************************************************************)
(* Planner: chunk_json_data and create_input_chunks.                       *)
(***************************************************************************)
\* for i in range(0, len(data), chunk_size): chunks.append(data[i:i + chunk_size])
\* (a range with a negative step and a stop above its start is empty).
RECURSIVE chunk_from(_, _, _)
chunk_from(data, size, start) ==
    IF size < 0 \/ start >= Len(data) THEN <<>>
    ELSE <<Slice(data, start, start + size)>> \o chunk_from(data, size, start + size)

\* A slicing bug: the slice end is one short, so every chunk loses its last item.
chunk_json_data_short(data, size) ==
    LET RECURSIVE from(_)
        from(start) ==
            IF start >= Len(data) THEN <<>>
            ELSE <<Slice(data, start, start + size - 1)>> \o from(start + size)
    IN from(0)

chunk_json_data(data, size) == chunk_from(data, size, 0)

\* A naming bug: the chunk index is left out of the file name.
chunk_input_path_same(k) == <<"input", 0>>

\* chunk_path = input_dir / f"{input_stem}-{i}.json"
chunk_input_path(k) == <<"input", k>>

\* The lists an input file can hold: the items are note records, told apart
\* by their identifier.
InputLists(n) == {[t |-> "list", items |-> s] : s \in SeqsUpTo(1..2, n)}
BadInputs == {[t |-> "missing"], [t |-> "notjson"], [t |-> "notlist"]}

\* A planning bug: an empty list is refused like an input that is no list.
plan_outcome_strict(inp) ==
    IF inp.t # "list" \/ Len(inp.items) = 0 THEN "error" ELSE "chunks"

\* A planning bug: an input that cannot be read as a list is taken for an
\* empty one, and the error is lost.
plan_outcome_lenient(inp) ==
    IF inp.t # "list" THEN "empty"
    ELSE IF Len(inp.items) = 0 THEN "empty" ELSE "chunks"

\* create_input_chunks before it chunks: read_text, json.loads and the
\* isinstance check raise (FileNotFoundError, JSONDecodeError, ValueError),
\* an empty list returns [], any other list is chunked.
plan_outcome(inp) ==
    IF inp.t # "list" THEN "error"
    ELSE IF Len(inp.items) = 0 THEN "empty" ELSE "chunks"

\* A mode bug: only chunk_size = 0 turns the chunking off.
chunking_enabled_nonzero(size) == size # 0

\* execute_mode_with_chunking: "if chunk_size > 0" chooses the chunking
\* mode, else the single-file mode.
chunking_enabled(size) == size > 0

\* create_input_chunks up to the chunk loop: read, parse, check, chunk.
CreateInputChunks ==
    /\ pc = "start"
    /\ chunking_enabled(chunk_size)
    /\ CASE plan_outcome(input) = "error" ->
                \* the except clauses raise NonRetryableError
                /\ pc' = "done" /\ exit' = "plan_error"
                /\ UNCHANGED <<chunks, i>>
         [] plan_outcome(input) = "empty" ->
                \* return [] -> "No chunks created, exiting"
                /\ pc' = "done" /\ exit' = "no_chunks"
                /\ UNCHANGED <<chunks, i>>
         [] OTHER ->
                /\ chunks' = chunk_json_data(input.items, chunk_size)
                /\ i' = 1
                /\ pc' = "plan"
                /\ UNCHANGED exit
    /\ UNCHANGED <<toolVars, args, delay, input, chunk_size, max_retries, mode, remote, fs, chunk_paths, orchVars, runVars, invVars>>

\* One iteration of "for i, chunk in enumerate(chunks, 1)": write chunk i.
\* A failing write_text raises, and the except clause turns it into
\* NonRetryableError; after the last chunk the list of paths is returned.
WriteChunk ==
    /\ pc = "plan"
    /\ i <= Len(chunks)
    /\ \E ok \in BOOLEAN :
        IF ok
        THEN /\ fs' = WriteText(fs, chunk_input_path(i), chunks[i])
             /\ chunk_paths' = Append(chunk_paths, chunk_input_path(i))
             /\ IF i = Len(chunks)
                THEN /\ pc' = "loop"
                     /\ i' = 1
                ELSE /\ i' = i + 1
                     /\ UNCHANGED pc
             /\ UNCHANGED exit
        ELSE /\ pc' = "done" /\ exit' = "plan_error"
             /\ UNCHANGED <<fs, chunk_paths, i>>
    /\ UNCHANGED <<toolVars, args, delay, input, chunk_size, max_retries, mode, remote, chunks, orchVars, runVars, invVars>>


(***************************************************************************)
(* Response text.  A text is a sequence of tokens; a token is a record     *)
(* [k, pairs]: k is its kind, pairs the members of a JSON object (in the   *)
(* order they are written), empty for every other kind.  A member is       *)
(* <<key, value>>, a value is [ty, v] with v its text.                     *)
(***************************************************************************)
Tok(kind) == [k |-> kind, pairs |-> <<>>]
Obj(members) == [k |-> "obj", pairs |-> members]
IntVal(text) == [ty |-> "int", v |-> text]
StrVal(text) == [ty |-> "str", v |-> text]
NullVal == [ty |-> "null", v |-> "null"]

\* Strings that int() of the schema accepts, and words the retry heuristics
\* of save_and_validate_json look for.
NumericStrings == {"1", "2", "7"}
SchemaKeywords == {"missing", "required field", "none is not an allowed value"}

\* Number of characters of a token (a lower bound for objects with members).
TokLen(tok) ==
    CASE tok.k = "fence_json" -> 7
      [] tok.k = "fence" -> 3
      [] tok.k = "junk" -> 12
      [] tok.k = "obj" -> 2 + 10 * Len(tok.pairs)
      [] OTHER -> 1

RECURSIVE TextLen(_)
TextLen(text) == IF text = <<>> THEN 0 ELSE TokLen(Head(text)) + TextLen(Tail(text))

\* str.strip(): whitespace goes from both ends (a byte order mark is no whitespace).
RECURSIVE LStrip(_)
LStrip(text) ==
    IF text # <<>> /\ Head(text).k = "ws" THEN LStrip(Tail(text)) ELSE text

RECURSIVE RStrip(_)
RStrip(text) ==
    IF text # <<>> /\ text[Len(text)].k = "ws"
    THEN RStrip(SubSeq(text, 1, Len(text) - 1)) ELSE text

Strip(text) == RStrip(LStrip(text))

\* A fence-stripping bug: the closing fence is left in place.
clean_json_output_open(raw) ==
    LET cleaned == Strip(raw)
    IN IF cleaned # <<>> /\ Head(cleaned).k \in {"fence", "fence_json"}
       THEN Strip(Tail(cleaned)) ELSE cleaned

\* re.sub(r"^```(?:json)?", "", cleaned, IGNORECASE), re.sub(r"```$", "", cleaned),
\* each followed by strip().
clean_json_output(raw) ==
    LET cleaned == Strip(raw)
        opened == IF cleaned # <<>> /\ Head(cleaned).k \in {"fence", "fence_json"}
                  THEN Strip(Tail(cleaned)) ELSE cleaned
    IN IF opened # <<>> /\ opened[Len(opened)].k = "fence"
       THEN Strip(SubSeq(opened, 1, Len(opened) - 1)) ELSE opened

\* The words the parse-error heuristic of save_and_validate_json looks for
\* in the lower-cased message of the JSONDecodeError.
ParseKeywords == {"unexpected", "truncated", "incomplete", "malformed"}

\* json.loads: whitespace between tokens is skipped; the text is a value
\* (an object or a scalar) or "[" values "]"; anything else is a
\* JSONDecodeError; msg is the set of ParseKeywords its message contains:
\* "unexpected" for a text that starts with a byte order mark
\* ("Unexpected UTF-8 BOM (decode using utf-8-sig)"), none for the other
\* messages ("Expecting value", "Expecting ',' delimiter", "Extra data",
\* "Unterminated string starting at", ...).
IsValue(tok) == tok.k \in {"obj", "scalar"}

json_loads(text) ==
    LET toks == SelectSeq(text, LAMBDA tok : tok.k # "ws")
        n == Len(toks)
        inner == SubSeq(toks, 2, n - 1)
    IN IF n >= 1 /\ toks[1].k = "bom"
       THEN [ok |-> FALSE, t |-> "error", items |-> <<>>, msg |-> {"unexpected"}]
       ELSE IF n = 1 /\ IsValue(toks[1])
       THEN [ok |-> TRUE, t |-> "other", items |-> <<>>, msg |-> {}]
       ELSE IF /\ n >= 2 /\ toks[1].k = "[" /\ toks[n].k = "]"
               /\ \A j \in 1..Len(inner) : IsValue(inner[j])
       THEN [ok |-> TRUE, t |-> "list", items |-> inner, msg |-> {}]
       ELSE [ok |-> FALSE, t |-> "error", items |-> <<>>, msg |-> {}]

\* The schema classes TagAudit, ExtraUpdate, TagUpdate: fields in declared
\* order, which is also the key order of order_audit, order_extra, order_tag.
Modes == {"tag-auditor", "grammar-explain", "extra-generator", "question-tagging"}

Schema(m) ==
    CASE m = "tag-auditor" -> << <<"noteId", "int">>, <<"oldTag", "str">>, <<"newTag", "str">> >>
      [] m \in {"grammar-explain", "extra-generator"} -> << <<"noteId", "int">>, <<"Extra", "str">> >>
      [] OTHER -> << <<"noteId", "int">>, <<"newTag", "str">> >>

\* A Python dict built from the members: has(key), and the value of the last
\* member with that key.
HasKey(pairs, key) == \E j \in 1..Len(pairs) : pairs[j][1] = key
Lookup(pairs, key) ==
    LET last == CHOOSE j \in 1..Len(pairs) :
                    /\ pairs[j][1] = key
                    /\ \A h \in (j + 1)..Len(pairs) : pairs[h][1] # key
    IN pairs[last][2]

\* Field validation of the schema class (lax mode): an int field takes an
\* integer or a numeric string, a str field takes a string only.
FieldOk(val, type) ==
    IF type = "int"
    THEN val.ty = "int" \/ (val.ty = "str" /\ val.v \in NumericStrings)
    ELSE val.ty = "str"

Coerce(val, type) == IF type = "int" THEN IntVal(val.v) ELSE val

\* schema_class(**item) for an object: ok, or a ValidationError; mentions
\* says whether str(e) has one of the words of SchemaKeywords: a missing
\* field says "missing", and the message quotes every rejected input value.
validate_item(pairs, m) ==
    LET sch == Schema(m)
        missing == {f \in 1..Len(sch) : ~HasKey(pairs, sch[f][1])}
        wrong == {f \in 1..Len(sch) :
                    /\ HasKey(pairs, sch[f][1])
                    /\ ~FieldOk(Lookup(pairs, sch[f][1]), sch[f][2])}
    IN [ok |-> missing = {} /\ wrong = {},
        mentions |-> \/ missing # {}
                     \/ \E f \in wrong : Lookup(pairs, sch[f][1]).v \in SchemaKeywords]

\* An ordering bug: the members are written as the response sent them.
order_func_as_sent(pairs, m) == pairs

\* order_func(item): the declared keys, in declared order, with the
\* validated (coerced) values.
order_func(pairs, m) ==
    LET sch == Schema(m)
    IN [f \in 1..Len(sch) |-> <<sch[f][1], Coerce(Lookup(pairs, sch[f][1]), sch[f][2])>>]

\* A validation bug: a response whose first element conforms is accepted.
all_valid_first(items, m) ==
    validate_item(items[1].pairs, m).ok

all_valid(items, m) ==
    \A j \in 1..Len(items) : items[j].k = "obj" /\ validate_item(items[j].pairs, m).ok

\* A heuristic bug: the length of the text is not looked at.
parse_error_retryable_no_length(msg, cleaned) ==
    msg \cap ParseKeywords # {}

\* is_retryable of the JSONDecodeError branch: a keyword in the message, or
\* len(cleaned_output.strip()) < 10.
parse_error_retryable(msg, cleaned) ==
    msg \cap ParseKeywords # {} \/ TextLen(Strip(cleaned)) < 10

\* A shape bug: the empty list is let through to the schema validation.
check_shape_accept_empty(t, n) ==
    IF t # "list" THEN [ok |-> FALSE, is_retryable |-> TRUE]
    ELSE [ok |-> TRUE, is_retryable |-> FALSE]

\* isinstance(parsed, list) and len(parsed) == 0: both return (False, True).
check_shape(t, n) ==
    IF t # "list" THEN [ok |-> FALSE, is_retryable |-> TRUE]
    ELSE IF n = 0 THEN [ok |-> FALSE, is_retryable |-> TRUE]
    ELSE [ok |-> TRUE, is_retryable |-> FALSE]

\* A heuristic bug: the number of items is not looked at.
schema_error_retryable_no_count(mentions, n) == mentions

\* is_retryable of the ValidationError branch: a keyword in the message, or
\* len(parsed) < 3.
schema_error_retryable(mentions, n) == mentions \/ n < 3

\* A merging bug: an element that repeats the one before it is dropped.
ordered_items_merged(items, m) ==
    LET keep == SelectSeq([j \in 1..Len(items) |-> j],
                          LAMBDA j : j = 1 \/ items[j] # items[j - 1])
    IN [j \in 1..Len(keep) |-> order_func(items[keep[j]].pairs, m)]

\* [order_func(item) for item in validated_items], validated_items being
\* [schema_class(**item) for item in parsed]: one item an element, in order.
ordered_items(items, m) ==
    [j \in 1..Len(items) |-> order_func(items[j].pairs, m)]

\* save_and_validate_json after the log write and before the output write:
\* [success, is_retryable, items].  The list comprehension stops at the
\* first element that does not validate: a non-object raises TypeError
\* (the "unexpected validation error" branch), an object ValidationError.
validate_json(raw, m) ==
    LET cleaned == clean_json_output(raw)
        parsed == json_loads(cleaned)
        fail(retry) == [success |-> FALSE, is_retryable |-> retry, items |-> <<>>]
        shape == check_shape(parsed.t, Len(parsed.items))
    IN IF ~parsed.ok THEN fail(parse_error_retryable(parsed.msg, cleaned))
       ELSE IF ~shape.ok THEN fail(shape.is_retryable)
       ELSE IF all_valid(parsed.items, m)
       THEN [success |-> TRUE, is_retryable |-> FALSE,
             items |-> ordered_items(parsed.items, m)]
       ELSE LET bad == CHOOSE j \in 1..Len(parsed.items) :
                          /\ ~all_valid(<<parsed.items[j]>>, m)
                          /\ \A h \in 1..(j - 1) : all_valid(<<parsed.items[h]>>, m)
            IN IF parsed.items[bad].k # "obj" THEN fail(TRUE)
               ELSE fail(schema_error_retryable(
                             validate_item(parsed.items[bad].pairs, m).mentions,
                             Len(parsed.items)))

(***************************************************************************)
(* Error classifier.  An error is [type, msg]: its exception class and the *)
(* phrases its lower-cased message contains.                               *)
(***************************************************************************)
ErrorTypes == {"ServerError", "ClientError", "ConnectionError", "TimeoutError", "Other"}
Phrases == {"rate limit", "429", "timeout", "connection"}

\* A fail-open bug: an exception of an unknown class is retried.
is_retryable_error_open(error) ==
    IF error.type = "ClientError"
    THEN error.msg \cap {"rate limit", "429", "timeout", "connection"} # {}
    ELSE TRUE

\* A 4xx bug: of the client errors only the rate-limited ones are retried.
is_retryable_error_rate_only(error) ==
    IF error.type = "ClientError"
    THEN error.msg \cap {"rate limit", "429"} # {}
    ELSE error.type \in {"ServerError", "ConnectionError", "TimeoutError"}

is_retryable_error(error) ==
    IF error.type = "ServerError" THEN TRUE
    ELSE IF error.type = "ClientError"
    THEN IF "rate limit" \in error.msg \/ "429" \in error.msg THEN TRUE
         ELSE IF "timeout" \in error.msg \/ "connection" \in error.msg THEN TRUE
         ELSE FALSE
    ELSE IF error.type \in {"ConnectionError", "TimeoutError"} THEN TRUE
    ELSE FALSE

(***************************************************************************)
(* What the remote call does in the pipeline specification: it returns one *)
(* of three texts or raises one of two errors.                             *)
(***************************************************************************)
GoodObj == Obj(<< <<"newTag", StrVal("a")>>, <<"noteId", IntVal("1")>> >>)
RespOk == <<Tok("fence_json"), Tok("ws"), Tok("["), GoodObj, Tok("]"), Tok("ws"), Tok("fence")>>
RespEmpty == <<Tok("["), Tok("]"), Tok("ws")>>
RespTruncated == <<Tok("["), GoodObj>>
Responses == {RespOk, RespEmpty, RespTruncated}

NoError == [type |-> "None", msg |-> {}]
ServerErr == [type |-> "ServerError", msg |-> {}]
ClientErr == [type |-> "ClientError", msg |-> {}]

Returns(texts) == {[t |-> "text", text |-> r, err |-> NoError] : r \in texts}
Raises(errors) == {[t |-> "error", text |-> <<>>, err |-> e] : e \in errors}

\* The remote service of the pipeline specification, and the one of the
\* invoker on its own: every error class, with every set of phrases.
PipelineRemote == Returns(Responses) \cup Raises({ServerErr, ClientErr})
AnyRemote ==
    Returns(Responses)
        \cup Raises({[type |-> ty, msg |-> m] : ty \in ErrorTypes, m \in SUBSET Phrases})

(***************************************************************************)
(* Decisions of the retry loops.                                           *)
(***************************************************************************)
\* A classification bug: a terminal error is retried like a retryable one.
api_error_next_retry_all(retryable, n, budget) ==
    IF n < budget THEN "sleep" ELSE "raise RetryableError"

\* A backoff bug: the invoker also sleeps after its last failure.
api_error_next_sleepy(retryable, n, budget) ==
    IF ~retryable THEN "raise NonRetryableError"
    ELSE IF n <= budget THEN "sleep"
    ELSE "raise RetryableError"

\* call_gemini_api_with_retry, the except clause of attempt n of 0..budget.
api_error_next(retryable, n, budget) ==
    IF ~retryable THEN "raise NonRetryableError"
    ELSE IF n < budget THEN "sleep"
    ELSE "raise RetryableError"

\* An outer-budget bug: range(max_retries) instead of range(max_retries + 1).
outer_next_short(outcome, n, budget) ==
    IF outcome = "Success" THEN "return True"
    ELSE IF outcome # "Retryable" THEN "return False"
    ELSE IF n + 1 < budget THEN "sleep"
    ELSE "return False"

\* A short-circuit bug: a terminal failure is retried while attempts remain.
outer_next_retry_terminal(outcome, n, budget) ==
    IF outcome = "Success" THEN "return True"
    ELSE IF n < budget THEN "sleep"
    ELSE "return False"

\* A propagation bug: the last RetryableError is re-raised to the caller.
outer_next_reraise(outcome, n, budget) ==
    IF outcome = "Success" THEN "return True"
    ELSE IF outcome # "Retryable" THEN "return False"
    ELSE IF n < budget THEN "sleep"
    ELSE "raise"

\* A success bug: the runner goes on to another attempt after a success.
outer_next_continue(outcome, n, budget) ==
    IF outcome # "Retryable" /\ outcome # "Success" THEN "return False"
    ELSE IF n < budget THEN "sleep"
    ELSE IF outcome = "Success" THEN "return True" ELSE "return False"

\* A backoff bug: the runner also sleeps after the failure of its last
\* attempt, before it gives up.
outer_next_sleepy(outcome, n, budget) ==
    IF outcome = "Success" THEN "return True"
    ELSE IF outcome # "Retryable" THEN "return False"
    ELSE IF n <= budget THEN "sleep"
    ELSE "return False"

\* execute_single_chunk, the end of outer attempt n of 0..budget: outcome is
\* "Success" (validated and saved), "Retryable" (RetryableError, or a
\* retryable validation failure), "Terminal" (NonRetryableError, or a
\* non-retryable validation failure) or "Unexpected" (any other exception).
outer_next(outcome, n, budget) ==
    IF outcome = "Success" THEN "return True"
    ELSE IF outcome # "Retryable" THEN "return False"
    ELSE IF n < budget THEN "sleep"
    ELSE "return False"

\* A backoff bug of the single-file path: it sleeps after the failure of its
\* last attempt too, and goes on to one attempt more.
full_retry_next_sleepy(outcome, n, budget) ==
    IF outcome = "Success" THEN "return True"
    ELSE IF outcome # "Retryable" THEN "return False"
    ELSE IF n <= budget THEN "sleep"
    ELSE "return False"

\* execute_mode_with_full_retry, the end of overall attempt n of 0..budget,
\* with the outcomes of outer_next.  The function returns no value: "return
\* True" is the return after the report of the success, "return False" the
\* return after the report of a failure (the non-retryable one, or the one
\* printed after the loop when the last attempt failed).
full_retry_next(outcome, n, budget) ==
    IF outcome = "Success" THEN "return True"
    ELSE IF outcome # "Retryable" THEN "return False"
    ELSE IF n < budget THEN "sleep"
    ELSE "return False"

\* (success, is_retryable) of save_and_validate_json as an attempt outcome.
validation_outcome(success, is_retryable) ==
    IF success THEN "Success" ELSE IF is_retryable THEN "Retryable" ELSE "Terminal"

(***************************************************************************)
(* Backoff delay: calculate_delay.  A delay is a whole number of units of  *)
(* 1 / DelayUnit seconds, which makes the jitter of every draw exact.      *)
(***************************************************************************)
DelayUnit == 10 * Resolution

RECURSIVE Pow(_, _)
Pow(b, n) == IF n = 0 THEN 1 ELSE b * Pow(b, n - 1)

\* A jitter bug: the jitter is spread on both sides of the delay.
calculate_delay_signed(attempt_index, base_delay, max_delay, backoff_factor, u) ==
    LET d == Min(base_delay * Pow(backoff_factor, attempt_index), max_delay)
        jitter == d * (2 * u - Resolution)
    IN d * DelayUnit + jitter

\* delay = min(base_delay * (backoff_factor ** attempt), max_delay);
\* jitter = delay * 0.1 * random.random(), where random.random() = u / Resolution;
\* return delay + jitter.
calculate_delay(attempt_index, base_delay, max_delay, backoff_factor, u) ==
    LET d == Min(base_delay * Pow(backoff_factor, attempt_index), max_delay)
        jitter == d * u
    IN d * DelayUnit + jitter

\* DEFAULT_INPUT_PATH, DEFAULT_OUTPUT_PATH, DEFAULT_LOG_PATH: the parent
\* directory and the stem of each.  A stem is a sequence of characters.
DefaultArgs ==
    [input |-> [dir |-> "data/input", stem |-> <<"input">>],
     output |-> [dir |-> "data/output", stem |-> <<"output">>],
     log |-> [dir |-> "data/output", stem |-> <<"output_raw">>]]

\* str(k) of an index: its decimal digits.
RECURSIVE Digits(_)
Digits(n) ==
    LET digit(d) == <<"0", "1", "2", "3", "4", "5", "6", "7", "8", "9">>[d + 1]
    IN IF n < 10 THEN <<digit(n)>> ELSE Digits(n \div 10) \o <<digit(n % 10)>>

\* Path.with_suffix: the last suffix of the name is replaced.
with_suffix(name, suffix) == SubSeq(name, 1, Len(name) - 1) \o suffix

\* chunk_path = input_dir / f"{input_stem}-{i}.json"
chunk_input_name(a, k) == <<a.input.dir>> \o a.input.stem \o <<"-">> \o Digits(k) \o <<".json">>

\* A naming bug: the chunk index is left out of the name of the output.
chunk_output_name_shared(a, k) == <<a.output.dir>> \o a.output.stem \o <<".json">>

\* chunk_output_path = output_path.parent / f"{output_stem}-{i}.json"
chunk_output_name(a, k) == <<a.output.dir>> \o a.output.stem \o <<"-">> \o Digits(k) \o <<".json">>

\* chunk_log_path = log_path.parent / f"{log_stem}-{i}.log"
chunk_log_name(a, k) == <<a.log.dir>> \o a.log.stem \o <<"-">> \o Digits(k) \o <<".log">>

\* attempt_log_path = log_path.with_suffix(f".attempt{overall_attempt + 1}.log")
attempt_log_name(a, k, n) ==
    with_suffix(chunk_log_name(a, k), <<".attempt">> \o Digits(n + 1) \o <<".log">>)

InstructionPath == <<"instruction", 0>>
chunk_output_path(k) == <<"output", k>>

\* A naming bug: the attempt number is left out of the log name.
attempt_log_path_same(k, n) == <<"log", k, 1>>

\* A naming bug: the log of the run is used, not the log of the chunk.
attempt_log_path_no_chunk(k, n) == <<"log", 0, n + 1>>

\* log_path.with_suffix(f".attempt{overall_attempt + 1}.log") of the chunk's log.
attempt_log_path(k, n) == <<"log", k, n + 1>>

(***************************************************************************)
(* Chunk runner (execute_single_chunk) and invoker                         *)
(* (call_gemini_api_with_retry), as steps of the run of chunk i.           *)
(***************************************************************************)
\* return from execute_single_chunk to process_chunks.
Return(value) ==
    /\ ret' = value
    /\ results' = Append(results, value)
    /\ pc' = "ret"

\* A budget bug: the inner attempt counter is carried over from the previous
\* outer attempt, so the two retry layers share one budget.
StartInvoker_shared(client_ok) ==
    IF client_ok
    THEN /\ api_max_retries' = INNER_MAX_RETRIES
         /\ attempt' = attempt
         /\ last_error' = NoError
         /\ inv' = "none"
         /\ inv_calls' = 0
         /\ inv_sleeps' = 0
         /\ pc' = "call"
         /\ UNCHANGED <<ret, results, attempts, raw_output, calls>>
    ELSE /\ attempts' = Append(attempts,
                [text |-> FALSE, log_failed |-> FALSE, outcome |-> "Unexpected"])
         /\ Return("False")
         /\ UNCHANGED <<invVars>>

\* A containment bug: the exception of a failing genai.Client() is caught
\* nowhere, and the process dies in the middle of the chunk.
StartInvoker_crash(client_ok) ==
    IF client_ok
    THEN /\ api_max_retries' = INNER_MAX_RETRIES
         /\ attempt' = 0
         /\ last_error' = NoError
         /\ inv' = "none"
         /\ inv_calls' = 0
         /\ inv_sleeps' = 0
         /\ pc' = "call"
         /\ UNCHANGED <<ret, results, attempts, raw_output, calls>>
    ELSE /\ attempts' = Append(attempts,
                [text |-> FALSE, log_failed |-> FALSE, outcome |-> "Unexpected"])
         /\ pc' = "crashed"
         /\ UNCHANGED <<ret, results, invVars>>

\* Entry of call_gemini_api_with_retry(..., max_retries=2): genai.Client()
\* and the prompt; a Client() that raises is an unexpected exception of the
\* runner (its outermost except clause returns False).
StartInvoker(client_ok) ==
    IF client_ok
    THEN /\ api_max_retries' = INNER_MAX_RETRIES
         /\ attempt' = 0
         /\ last_error' = NoError
         /\ inv' = "none"
         /\ inv_calls' = 0
         /\ inv_sleeps' = 0
         /\ pc' = "call"
         /\ UNCHANGED <<ret, results, attempts, raw_output, calls>>
    ELSE /\ attempts' = Append(attempts,
                [text |-> FALSE, log_failed |-> FALSE, outcome |-> "Unexpected"])
         /\ Return("False")
         /\ UNCHANGED <<invVars>>

\* The end of an outer attempt with the given outcome: return, or sleep.
\* The chunk runner and the single-file path each have their own copy of
\* the loop body.
EndAttempt(outcome) ==
    LET next == IF chunking_enabled(chunk_size)
                THEN outer_next(outcome, overall_attempt, max_retries)
                ELSE full_retry_next(outcome, overall_attempt, max_retries)
    IN CASE next = "return True" -> Return("True") /\ UNCHANGED delay
         [] next = "return False" -> Return("False") /\ UNCHANGED delay
         [] next = "raise" -> Return("Exception") /\ UNCHANGED delay
         [] OTHER ->
                \* delay = calculate_delay(overall_attempt, ...); time.sleep(delay)
                /\ \E u \in 0..(Resolution - 1) :
                      delay' = <<[attempt |-> overall_attempt, u |-> u,
                                  value |-> calculate_delay(overall_attempt, DEFAULT_BASE_DELAY,
                                                DEFAULT_MAX_DELAY, DEFAULT_BACKOFF_FACTOR, u)]>>
                /\ pc' = "outer_sleep"
                /\ UNCHANGED <<ret, results>>

\* A reading bug: only the input is read before the loop; a missing
\* instruction document goes unnoticed.
read_input_files_input_only(f, input_path, instruction_path) ==
    IF Exists(f, input_path) THEN "read" ELSE "NonRetryableError"

\* read_input_files: both files are read; a file that is not there raises
\* FileNotFoundError, which is turned into NonRetryableError.
read_input_files(f, input_path, instruction_path) ==
    IF Exists(f, input_path) /\ Exists(f, instruction_path)
    THEN "read" ELSE "NonRetryableError"

\* process_chunks: the loop body up to the runner's first remote call:
\* chunk paths, ensure_directories (the directories can be created),
\* execute_single_chunk up to the first attempt.
BeginChunk ==
    /\ pc = "loop"
    /\ i <= Len(chunk_paths)
    /\ calls' = 0
    /\ outer_sleeps' = 0
    /\ out_writes' = 0
    /\ overall_attempt' = 0
    /\ IF read_input_files(fs, chunk_paths[i], InstructionPath) # "read"
       THEN \* except NonRetryableError: return False
            /\ Return("False")
            /\ attempts' = <<>>
            /\ UNCHANGED <<api_max_retries, attempt, last_error, inv, raw_output, inv_calls, inv_sleeps>>
       ELSE IF max_retries + 1 <= 0
       THEN \* range(max_retries + 1) is empty: return False after the loop
            /\ Return("False")
            /\ attempts' = <<>>
            /\ UNCHANGED <<api_max_retries, attempt, last_error, inv, raw_output, inv_calls, inv_sleeps>>
       ELSE \E client_ok \in BOOLEAN :
            IF client_ok
            THEN /\ api_max_retries' = INNER_MAX_RETRIES
                 /\ attempt' = 0
                 /\ last_error' = NoError
                 /\ inv' = "none"
                 /\ inv_calls' = 0
                 /\ inv_sleeps' = 0
                 /\ pc' = "call"
                 /\ ret' = "none"
                 /\ attempts' = <<>>
                 /\ UNCHANGED <<results, raw_output>>
            ELSE /\ attempts' = <<[text |-> FALSE, log_failed |-> FALSE,
                                   outcome |-> "Unexpected"]>>
                 /\ Return("False")
                 /\ UNCHANGED <<api_max_retries, attempt, last_error, inv, raw_output, inv_calls, inv_sleeps>>
    /\ UNCHANGED <<planVars, successful_chunks, failed_chunks, interrupted, fs, i>>

\* One pass of "for attempt in range(max_retries + 1)": the remote call and
\* what follows it up to the sleep, the return or the raise.
RemoteCall ==
    /\ pc = "call"
    /\ calls' = calls + 1
    /\ inv_calls' = inv_calls + 1
    /\ \E r \in remote :
        IF r.t = "text"
        THEN \* result = (response.text or "").strip(); return result
             /\ raw_output' = Strip(r.text)
             /\ inv' = "text"
             /\ pc' = "invoked"
             /\ UNCHANGED last_error
        ELSE LET next == api_error_next(is_retryable_error(r.err), attempt, api_max_retries)
             IN /\ last_error' = r.err
                /\ CASE next = "sleep" -> pc' = "inner_sleep" /\ inv' = inv
                     [] next = "raise NonRetryableError" ->
                            pc' = "invoked" /\ inv' = "NonRetryable"
                     [] OTHER -> pc' = "invoked" /\ inv' = "Retryable"
                /\ UNCHANGED raw_output
    /\ UNCHANGED <<planVars, orchVars, runVars, api_max_retries, attempt, inv_sleeps, fs, i>>

\* time.sleep(delay) of the invoker returns; the loop goes to the next attempt.
InnerSleep ==
    /\ pc = "inner_sleep"
    /\ inv_sleeps' = inv_sleeps + 1
    /\ attempt' = attempt + 1
    /\ pc' = "call"
    /\ UNCHANGED <<planVars, orchVars, runVars, api_max_retries, last_error, inv,
                   raw_output, calls, inv_calls, fs, i>>

\* execute_single_chunk takes the invoker's result: the text goes to
\* save_and_validate_json, an exception to the except clause.
HandleInvocation ==
    /\ pc = "invoked"
    /\ IF inv = "text"
       THEN /\ pc' = "save"
            /\ UNCHANGED <<ret, results, attempts, delay>>
       ELSE LET outcome == IF inv = "Retryable" THEN "Retryable" ELSE "Terminal"
            IN /\ attempts' = Append(attempts,
                      [text |-> FALSE, log_failed |-> FALSE, outcome |-> outcome])
               /\ EndAttempt(outcome)
    /\ UNCHANGED <<planVarsButDelay, successful_chunks, failed_chunks, interrupted,
                   overall_attempt, outer_sleeps, out_writes, invVars, fs, i>>

\* A logging bug: the cleaned text is logged, not the raw one.
SaveLog_cleaned ==
    /\ pc = "save"
    /\ \E ok \in BOOLEAN :
        /\ fs' = IF ok THEN WriteText(fs, attempt_log_path(i, overall_attempt),
                                      clean_json_output(raw_output))
                 ELSE fs
        /\ attempts' = Append(attempts,
               [text |-> TRUE, log_failed |-> ~ok, outcome |-> "Validating"])
    /\ pc' = "validate"
    /\ UNCHANGED <<planVars, orchVars, overall_attempt, ret, outer_sleeps, out_writes,
                   invVars, i>>

\* save_and_validate_json, first statement: log_path.write_text(raw_output);
\* a failing write is reported and otherwise ignored.
SaveLog ==
    /\ pc = "save"
    /\ \E ok \in BOOLEAN :
        /\ fs' = IF ok THEN WriteText(fs, attempt_log_path(i, overall_attempt), raw_output)
                 ELSE fs
        /\ attempts' = Append(attempts,
               [text |-> TRUE, log_failed |-> ~ok, outcome |-> "Validating"])
    /\ pc' = "validate"
    /\ UNCHANGED <<planVars, orchVars, overall_attempt, ret, outer_sleeps, out_writes,
                   invVars, i>>

\* A streaming bug: the elements that conform are written to the output
\* although another element failed the validation.
ValidateAndSave_partial ==
    /\ pc = "validate"
    /\ LET v == validate_json(raw_output, mode)
           parsed == json_loads(clean_json_output(raw_output))
           conforming == SelectSeq(parsed.items,
                             LAMBDA e : e.k = "obj" /\ validate_item(e.pairs, mode).ok)
           outcome == validation_outcome(v.success, v.is_retryable)
       IN /\ fs' = WriteText(fs, chunk_output_path(i),
                        [j \in 1..Len(conforming) |-> order_func(conforming[j].pairs, mode)])
          /\ out_writes' = out_writes + 1
          /\ attempts' = [attempts EXCEPT ![Len(attempts)].outcome = outcome]
          /\ EndAttempt(outcome)
    /\ UNCHANGED <<planVarsButDelay, successful_chunks, failed_chunks, interrupted,
                   overall_attempt, outer_sleeps, invVars, i>>

\* A classification bug: a failing write of the output is reported as
\* (False, True), a failure worth another attempt.
ValidateAndSave_retry_write ==
    /\ pc = "validate"
    /\ \E v \in {validate_json(raw_output, mode)}, ok \in BOOLEAN :
           LET outcome == IF v.success /\ ~ok THEN "Retryable"
                          ELSE validation_outcome(v.success /\ ok, v.is_retryable)
           IN /\ (v.success \/ ok)
              /\ IF v.success /\ ok
                 THEN /\ fs' = WriteText(fs, chunk_output_path(i), v.items)
                      /\ out_writes' = out_writes + 1
                 ELSE UNCHANGED <<fs, out_writes>>
              /\ attempts' = [attempts EXCEPT ![Len(attempts)].outcome = outcome]
              /\ EndAttempt(outcome)
    /\ UNCHANGED <<planVarsButDelay, successful_chunks, failed_chunks, interrupted,
                   overall_attempt, outer_sleeps, invVars, i>>

\* A dependency bug: the text is validated as read back from the attempt
\* log, so an attempt whose log was not written validates an empty text.
ValidateAndSave_from_log ==
    /\ pc = "validate"
    /\ \E v \in {validate_json(IF attempts[Len(attempts)].log_failed THEN <<>> ELSE raw_output,
                               mode)},
          ok \in BOOLEAN :
           LET outcome == validation_outcome(v.success /\ ok, v.is_retryable)
           IN /\ (v.success \/ ok)
              /\ IF v.success /\ ok
                 THEN /\ fs' = WriteText(fs, chunk_output_path(i), v.items)
                      /\ out_writes' = out_writes + 1
                 ELSE UNCHANGED <<fs, out_writes>>
              /\ attempts' = [attempts EXCEPT ![Len(attempts)].outcome = outcome]
              /\ EndAttempt(outcome)
    /\ UNCHANGED <<planVarsButDelay, successful_chunks, failed_chunks, interrupted,
                   overall_attempt, outer_sleeps, invVars, i>>

\* save_and_validate_json, the rest: clean, parse, validate, write the
\* output (a failing write gives (False, False)); then the runner's
\* reaction to (success, is_retryable).
ValidateAndSave ==
    /\ pc = "validate"
    /\ \E v \in {validate_json(raw_output, mode)}, ok \in BOOLEAN :
           LET outcome == validation_outcome(v.success /\ ok, v.is_retryable)
           IN /\ (v.success \/ ok)
              /\ IF v.success /\ ok
                 THEN /\ fs' = WriteText(fs, chunk_output_path(i), v.items)
                      /\ out_writes' = out_writes + 1
                 ELSE UNCHANGED <<fs, out_writes>>
              /\ attempts' = [attempts EXCEPT ![Len(attempts)].outcome = outcome]
              /\ EndAttempt(outcome)
    /\ UNCHANGED <<planVarsButDelay, successful_chunks, failed_chunks, interrupted,
                   overall_attempt, outer_sleeps, invVars, i>>

\* time.sleep(delay) of the runner returns; the next outer attempt starts
\* with a new run of the invoker.
OuterSleep ==
    /\ pc = "outer_sleep"
    /\ outer_sleeps' = outer_sleeps + 1
    /\ overall_attempt' = overall_attempt + 1
    /\ delay' = <<>>
    /\ \E client_ok \in BOOLEAN : StartInvoker(client_ok)
    /\ UNCHANGED <<planVarsButDelay, successful_chunks, failed_chunks, interrupted, out_writes, fs, i>>

(***************************************************************************)
(* Orchestrator: process_chunks.                                           *)
(***************************************************************************)
\* A tally bug: a failed chunk is not recorded.
tally_forgetful(value, k, succeeded, failed) ==
    IF value = "True" THEN <<succeeded + 1, failed>> ELSE <<succeeded, failed>>

\* A tally bug: a failed chunk is put in front of the list.
tally_prepend(value, k, succeeded, failed) ==
    IF value = "True" THEN <<succeeded + 1, failed>>
    ELSE <<succeeded, <<k>> \o failed>>

\* The tally after the runner of chunk k returned value (or raised an
\* exception that is no interruption): <<successful_chunks, failed_chunks>>.
tally(value, k, succeeded, failed) ==
    IF value = "True" THEN <<succeeded + 1, failed>>
    ELSE <<succeeded, Append(failed, k)>>

\* An iteration bug: the loop steps over the chunk that follows.
Tally_skip ==
    /\ pc = "ret"
    /\ chunking_enabled(chunk_size)
    /\ LET t == tally(ret, i, successful_chunks, failed_chunks)
       IN /\ successful_chunks' = t[1]
          /\ failed_chunks' = t[2]
    /\ i' = i + 2
    /\ pc' = IF i + 2 > Len(chunk_paths) THEN "summary" ELSE "loop"
    /\ UNCHANGED <<planVars, interrupted, results, runVars, invVars, fs>>

\* A cleanup bug: the input artifact of a chunk that succeeded is removed.
Tally_cleanup ==
    /\ pc = "ret"
    /\ chunking_enabled(chunk_size)
    /\ LET t == tally(ret, i, successful_chunks, failed_chunks)
       IN /\ successful_chunks' = t[1]
          /\ failed_chunks' = t[2]
    /\ fs' = IF ret = "True"
             THEN [q \in DOMAIN fs \ {chunk_paths[i]} |-> fs[q]]
             ELSE fs
    /\ i' = i + 1
    /\ pc' = IF i = Len(chunk_paths) THEN "summary" ELSE "loop"
    /\ UNCHANGED <<planVars, interrupted, results, runVars, invVars>>

\* process_chunks after execute_single_chunk: count the chunk, go on.
Tally ==
    /\ pc = "ret"
    /\ chunking_enabled(chunk_size)
    /\ LET t == tally(ret, i, successful_chunks, failed_chunks)
       IN /\ successful_chunks' = t[1]
          /\ failed_chunks' = t[2]
    /\ i' = i + 1
    /\ pc' = IF i = Len(chunk_paths) THEN "summary" ELSE "loop"
    /\ UNCHANGED <<planVars, interrupted, results, runVars, invVars, fs>>

\* KeyboardInterrupt after the tally statement of chunk i and before the
\* end of the try: it is raised in the print that follows the tally (line
\* 192 or 195), the except clause of line 197 breaks the loop, and the
\* summary comes with chunk i counted.
TallyInterrupted ==
    /\ pc = "ret"
    /\ chunking_enabled(chunk_size)
    /\ LET t == tally(ret, i, successful_chunks, failed_chunks)
       IN /\ successful_chunks' = t[1]
          /\ failed_chunks' = t[2]
    /\ interrupted' = TRUE
    /\ pc' = "summary"
    /\ UNCHANGED <<planVars, results, runVars, invVars, fs, i>>

\* The summary that ends process_chunks.
Summary ==
    /\ pc = "summary"
    /\ exit' = "summary"
    /\ pc' = "done"
    /\ UNCHANGED <<toolVars, args, delay, input, chunk_size, max_retries, mode, remote, chunks, chunk_paths,
                   orchVars, runVars, invVars, fs, i>>

\* execute_mode_with_full_retry (single-file mode) up to the first remote
\* call: setup_paths (the directories can be created), read_input_files on
\* the whole input, which is read as text and not parsed, then the first
\* pass of the attempt loop.  The artifacts of the whole input carry the
\* index 0: args.output and the attempt logs of args.log.
BeginSingle ==
    /\ pc = "start"
    /\ ~chunking_enabled(chunk_size)
    /\ i' = 0
    /\ calls' = 0
    /\ outer_sleeps' = 0
    /\ out_writes' = 0
    /\ overall_attempt' = 0
    /\ attempts' = <<>>
    /\ IF input.t = "missing" \/ ~Exists(fs, InstructionPath)
       THEN \* read_input_files: FileNotFoundError -> NonRetryableError -> return
            /\ Return("False")
            /\ UNCHANGED <<api_max_retries, attempt, last_error, inv, raw_output, inv_calls, inv_sleeps>>
       ELSE IF max_retries + 1 <= 0
       THEN \* range(max_retries + 1) is empty: "failed after all retry attempts"
            /\ Return("False")
            /\ UNCHANGED <<api_max_retries, attempt, last_error, inv, raw_output, inv_calls, inv_sleeps>>
       ELSE \E client_ok \in BOOLEAN :
            IF client_ok
            THEN /\ api_max_retries' = INNER_MAX_RETRIES
                 /\ attempt' = 0
                 /\ last_error' = NoError
                 /\ inv' = "none"
                 /\ inv_calls' = 0
                 /\ inv_sleeps' = 0
                 /\ pc' = "call"
                 /\ ret' = "none"
                 /\ UNCHANGED <<results, raw_output>>
            ELSE \* genai.Client() raises: "Unexpected error in ..."
                 /\ Return("False")
                 /\ UNCHANGED <<api_max_retries, attempt, last_error, inv, raw_output, inv_calls, inv_sleeps>>
    /\ UNCHANGED <<planVars, successful_chunks, failed_chunks, interrupted, fs>>

\* execute_mode_with_full_retry returns to execute_mode_with_chunking,
\* which ends: there is no tally and no summary in the single-file mode.
EndSingle ==
    /\ pc = "ret"
    /\ ~chunking_enabled(chunk_size)
    /\ exit' = "single"
    /\ pc' = "done"
    /\ UNCHANGED <<toolVars, args, delay, input, chunk_size, max_retries, mode, remote, chunks, chunk_paths,
                   orchVars, runVars, invVars, fs, i>>

\* KeyboardInterrupt.  Inside the try of process_chunks it breaks the loop;
\* in the loop body before the try, in the summary and in
\* create_input_chunks it reaches execute_mode_with_chunking, which returns.
\* In the single-file mode execute_mode_with_full_retry reports it and returns.
InTry == {"call", "inner_sleep", "invoked", "save", "validate", "outer_sleep", "ret"}

\* A handler bug: the interruption of a chunk is handled like any other
\* exception of the chunk, which is put on the list of the failed chunks.
Interrupt_as_failure ==
    /\ IF ~chunking_enabled(chunk_size)
       THEN /\ pc \in InTry \ {"ret"}
            /\ exit' = "interrupted"
            /\ pc' = "done"
            /\ UNCHANGED <<interrupted, failed_chunks>>
       ELSE IF pc \in InTry
       THEN /\ interrupted' = TRUE
            /\ failed_chunks' = Append(failed_chunks, i)
            /\ pc' = "summary"
            /\ UNCHANGED exit
       ELSE /\ pc \in {"plan", "loop", "summary"}
            /\ exit' = "interrupted"
            /\ pc' = "done"
            /\ UNCHANGED <<interrupted, failed_chunks>>
    /\ UNCHANGED <<toolVars, args, delay, input, chunk_size, max_retries, mode, remote, chunks, chunk_paths,
                   successful_chunks, results, runVars, invVars, fs, i>>

Interrupt ==
    /\ IF ~chunking_enabled(chunk_size)
       THEN /\ pc \in InTry \ {"ret"}
            /\ exit' = "interrupted"
            /\ pc' = "done"
            /\ UNCHANGED interrupted
       ELSE IF pc \in InTry
       THEN /\ interrupted' = TRUE
            /\ pc' = "summary"
            /\ UNCHANGED exit
       ELSE /\ pc \in {"plan", "loop", "summary"}
            /\ exit' = "interrupted"
            /\ pc' = "done"
            /\ UNCHANGED interrupted
    /\ UNCHANGED <<toolVars, args, delay, input, chunk_size, max_retries, mode, remote, chunks, chunk_paths,
                   successful_chunks, failed_chunks, results, runVars, invVars, fs, i>>

(***************************************************************************)
(* scripts/batch-updater.py: process_files applies the entries of the      *)
(* files of data/output to the flashcard store through AnkiConnect.  A tag *)
(* is the sequence of the pieces of its text ("ENG", "::", "a"); an entry  *)
(* is a JSON object, a function from its keys to values [ty, v], or a      *)
(* number, [scalar |-> ...].                                               *)
(***************************************************************************)
SUBJECTS == {<<"ENG">>, <<"BENG">>, <<"MATH">>, <<"GK">>, <<"GI">>}

\* tag.split("::")[0]
RECURSIVE split_first(_)
split_first(tag) ==
    IF tag = <<>> \/ Head(tag) = "::" THEN <<>>
    ELSE <<Head(tag)>> \o split_first(Tail(tag))

\* tag.startswith(prefix)
startswith(tag, prefix) ==
    Len(tag) >= Len(prefix) /\ SubSeq(tag, 1, Len(prefix)) = prefix

IsObject(e) == "scalar" \notin DOMAIN e

\* The keys an entry of a mode has and has not.
ModeKeys(m) ==
    CASE m = "question-tagging" -> [has |-> {"noteId", "newTag"}, hasnot |-> {"oldTag", "Extra"}]
      [] m = "tag-auditor" -> [has |-> {"noteId", "newTag", "oldTag"}, hasnot |-> {"Extra"}]
      [] OTHER -> [has |-> {"noteId", "Extra"}, hasnot |-> {"newTag", "oldTag"}]

\* detect_mode: the first entry chooses the candidate mode, all(...) checks
\* the entries in order and stops at the first that does not fit; "in"
\* applied to a number raises TypeError.
detect_mode(es) ==
    IF es = <<>> THEN "None"
    ELSE IF ~IsObject(es[1]) THEN "TypeError"
    ELSE LET keys == DOMAIN es[1]
             candidate ==
                 IF "newTag" \in keys /\ "oldTag" \notin keys /\ "Extra" \notin keys
                 THEN "question-tagging"
                 ELSE IF "newTag" \in keys /\ "oldTag" \in keys /\ "Extra" \notin keys
                 THEN "tag-auditor"
                 ELSE IF "Extra" \in keys /\ "newTag" \notin keys /\ "oldTag" \notin keys
                 THEN "extra-or-grammar"
                 ELSE "None"
             fits(e) == /\ IsObject(e)
                        /\ ModeKeys(candidate).has \subseteq DOMAIN e
                        /\ ModeKeys(candidate).hasnot \cap DOMAIN e = {}
             misfits == {j \in 1..Len(es) : ~fits(es[j])}
             first == CHOOSE j \in misfits : \A h \in misfits : j <= h
         IN IF candidate = "None" THEN "None"
            ELSE IF misfits = {} THEN candidate
            ELSE IF IsObject(es[first]) THEN "None"
            ELSE "TypeError"

\* QuestionTagging(**entry), TagAuditor(**entry), ExtraGenerator(**entry):
\* noteId is an int, the other fields are str.  The entries of the model
\* have a number or a text that is no number as their noteId.
schema_accepts(e, m) ==
    \A key \in ModeKeys(m).has :
        IF key = "noteId" THEN e[key].ty = "int" ELSE e[key].ty = "str"

\* One call of anki_request: ok says whether it returned without error.
Request(action, note, tags, ok) ==
    [action |-> action, note |-> note, tags |-> tags, ok |-> ok]

TagsOf(store, note) == IF note \in DOMAIN store THEN store[note] ELSE {}
WithTags(store, note, tags) ==
    [n \in DOMAIN store |-> IF n = note THEN tags ELSE store[n]]

\* How a call of a handler can go: the requests it sent, what it returned
\* (success), and the store after it.
Outcome(reqs, success, store) == [requests |-> reqs, success |-> success, notes |-> store]

\* process_question_tagging: every way the call can go, each request
\* succeeding or failing.  get_note_tags gives the empty set when notesInfo
\* fails; next(...) takes some tag of the set that starts with the subject.
process_question_tagging(e, store) ==
    LET note == e.noteId.v
        tag == e.newTag.v
        subject == split_first(tag)
        after_info(info_ok) ==
            LET info == Request("notesInfo", note, <<>>, info_ok)
                current_tags == IF info_ok THEN TagsOf(store, note) ELSE {}
                olds == {t \in current_tags : startswith(t, subject)}
                add(reqs, st) ==
                    {Outcome(reqs \o <<Request("addTags", note, tag, TRUE)>>, TRUE,
                             WithTags(st, note, TagsOf(st, note) \cup {tag})),
                     Outcome(reqs \o <<Request("addTags", note, tag, FALSE)>>, FALSE, st)}
            IN IF olds # {}
               THEN UNION {
                        {Outcome(<<info, Request("removeTags", note, old, FALSE)>>, FALSE, store)}
                        \cup add(<<info, Request("removeTags", note, old, TRUE)>>,
                                 WithTags(store, note, TagsOf(store, note) \ {old}))
                        : old \in olds}
               ELSE add(<<info>>, store)
    IN IF subject \notin SUBJECTS
       THEN {Outcome(<<>>, FALSE, store)}
       ELSE after_info(TRUE) \cup after_info(FALSE)

\* process_tag_auditor: one replaceTags request.
process_tag_auditor(e, store) ==
    LET note == e.noteId.v
        tags == TagsOf(store, note)
        replaced == IF e.oldTag.v \in tags
                    THEN (tags \ {e.oldTag.v}) \cup {e.newTag.v} ELSE tags
    IN {Outcome(<<Request("replaceTags", note, e.newTag.v, TRUE)>>, TRUE,
                WithTags(store, note, replaced)),
        Outcome(<<Request("replaceTags", note, e.newTag.v, FALSE)>>, FALSE, store)}

\* process_extra: one updateNoteFields request (the fields are not tags).
process_extra(e, store) ==
    {Outcome(<<Request("updateNoteFields", e.noteId.v, <<>>, ok)>>, ok, store) :
        ok \in BOOLEAN}

\* The body of "for entry in entries": the schema class, then the handler
\* of the mode; a ValidationError counts as a failure of the entry.
process_entry(e, m, store) ==
    IF ~schema_accepts(e, m) THEN {Outcome(<<>>, FALSE, store)}
    ELSE CASE m = "question-tagging" -> process_question_tagging(e, store)
           [] m = "tag-auditor" -> process_tag_auditor(e, store)
           [] OTHER -> process_extra(e, store)

\* A bookkeeping bug: all_success is overwritten by the success of the
\* entry, so only the last entry decides.
fold_success_last(all, success) == success

\* "if not success: all_success = False"
fold_success(all, success) == all /\ success

OutputFile(name) == <<"output", name>>
InputFile(name) == <<"input", name>>

\* The sequence of the numbers of S in ascending order.
RECURSIVE Ascending(_)
Ascending(S) ==
    IF S = {} THEN <<>>
    ELSE LET least == CHOOSE a \in S : \A b \in S : a <= b
         IN <<least>> \o Ascending(S \ {least})

Unlink(f, p) == [q \in DOMAIN f \ {p} |-> f[q]]

\* process_files up to its loop: the files of data/output, sorted.
ListFiles ==
    /\ pc = "start"
    /\ json_files' = Ascending({p[2] : p \in {q \in DOMAIN fs : q[1] = "output"}})
    /\ IF json_files' = <<>>
       THEN pc' = "done" /\ file' = 0
       ELSE pc' = "file" /\ file' = 1
    /\ UNCHANGED <<masterVars, mode, fs, entries, entry, all_success, notes, requests, report,
                   splitVars>>

\* The loop goes to the next file, or ends.
NextFile ==
    /\ file' = file + 1
    /\ pc' = IF file = Len(json_files) THEN "done" ELSE "file"

\* The loop body up to the loop over the entries: read and parse the file,
\* check that it is a non-empty list, detect the mode.  A file that is left
\* here is kept: "continue", or one of the except clauses of the file.
ReadFile ==
    /\ pc = "file"
    /\ LET name == json_files[file]
           content == fs[OutputFile(name)]
           m == IF content.t = "list" THEN detect_mode(content.items) ELSE "None"
           taken == content.t = "list" /\ m \notin {"None", "TypeError"}
       IN /\ report' = Append(report, [name |-> name, content |-> content, mode |-> m,
                                       successes |-> <<>>, unlinked |-> <<>>])
          /\ IF taken
             THEN /\ entries' = content.items
                  /\ entry' = 1
                  /\ mode' = m
                  /\ pc' = "entry"
                  /\ UNCHANGED file
             ELSE /\ NextFile
                  /\ UNCHANGED <<entries, entry, mode>>
          /\ all_success' = (taken \/ content.t = "notjson" \/ m = "TypeError")
    /\ UNCHANGED <<masterVars, fs, json_files, notes, requests, splitVars>>

\* One pass of "for entry in entries".
ProcessEntry ==
    /\ pc = "entry"
    /\ \E o \in process_entry(entries[entry], mode, notes) :
          /\ requests' = o.requests
          /\ notes' = o.notes
          /\ all_success' = fold_success(all_success, o.success)
          /\ report' = [report EXCEPT ![Len(report)].successes = Append(@, o.success)]
    /\ entry' = entry + 1
    /\ pc' = IF entry = Len(entries) THEN "finish" ELSE "entry"
    /\ UNCHANGED <<masterVars, mode, fs, json_files, file, entries, splitVars>>

\* After the entries: when all succeeded, unlink the input file of the same
\* name if it exists, then the output file, each in its own try (an OSError
\* is reported, the file stays); else the file is kept for a retry.
FinishFile ==
    /\ pc = "finish"
    /\ LET name == json_files[file]
       IN IF all_success
          THEN \E ok_in, ok_out \in BOOLEAN :
                 LET has_input == Exists(fs, InputFile(name))
                     fs1 == IF has_input /\ ok_in THEN Unlink(fs, InputFile(name)) ELSE fs
                     fs2 == IF ok_out THEN Unlink(fs1, OutputFile(name)) ELSE fs1
                     tried == (IF has_input THEN <<[path |-> InputFile(name), ok |-> ok_in]>>
                               ELSE <<>>)
                              \o <<[path |-> OutputFile(name), ok |-> ok_out]>>
                 IN /\ (has_input \/ ok_in)
                    /\ fs' = fs2
                    /\ report' = [report EXCEPT ![Len(report)].unlinked = tried]
          ELSE UNCHANGED <<fs, report>>
    /\ NextFile
    /\ UNCHANGED <<masterVars, mode, json_files, entries, entry, all_success, notes, requests,
                   splitVars>>

(***************************************************************************)
(* scripts/auto-split-merge.py: process_folder splits <name>.json into     *)
(* part files <name>-1.json, <name>-2.json, ... of CHUNK_SIZE items, or    *)
(* merges the part files into <name>.json.  A file name is the sequence of *)
(* the pieces of its text, the index of a part spelled in digits.          *)
(***************************************************************************)
CHUNK_SIZE == 25

prefix == "input"
filename == <<prefix, ".json">>

\* folder / f"{prefix}-{idx}.json"
part_file(k) == <<prefix, "-">> \o Digits(k) \o <<".json">>

\* folder.glob(f"{prefix}-*.json")
glob_parts(f) ==
    {p \in DOMAIN f : Len(p) >= 3 /\ p[1] = prefix /\ p[2] = "-" /\ p[Len(p)] = ".json"}

\* p.stem.split("-")[-1]
stem_suffix(p) == SubSeq(p, 3, Len(p) - 1)

DigitValue(c) ==
    CASE c = "0" -> 0 [] c = "1" -> 1 [] c = "2" -> 2 [] c = "3" -> 3 [] c = "4" -> 4
      [] c = "5" -> 5 [] c = "6" -> 6 [] c = "7" -> 7 [] c = "8" -> 8 [] c = "9" -> 9

\* int(text) of a text of digits
RECURSIVE int(_)
int(text) ==
    IF text = <<>> THEN 0
    ELSE 10 * int(SubSeq(text, 1, Len(text) - 1)) + DigitValue(text[Len(text)])

\* text comparison, character by character
RECURSIVE TextLeq(_, _)
TextLeq(a, b) ==
    IF a = <<>> THEN TRUE
    ELSE IF b = <<>> THEN FALSE
    ELSE IF Head(a) = Head(b) THEN TextLeq(Tail(a), Tail(b))
    ELSE DigitValue(Head(a)) < DigitValue(Head(b))

\* An ordering bug: the parts are sorted by the text of their suffix, so
\* part 10 comes before part 2.
part_order_lexicographic(p, q) == TextLeq(stem_suffix(p), stem_suffix(q))

\* key=lambda p: int(p.stem.split("-")[-1])
part_order(p, q) == int(stem_suffix(p)) <= int(stem_suffix(q))

\* sorted(parts, key=...)
RECURSIVE sorted_parts(_)
sorted_parts(S) ==
    IF S = {} THEN <<>>
    ELSE LET first == CHOOSE p \in S : \A q \in S : part_order(p, q)
         IN <<first>> \o sorted_parts(S \ {first})

\* [data[i:i + CHUNK_SIZE] for i in range(0, len(data), CHUNK_SIZE)]
split_chunks(items) ==
    [k \in 1..((Len(items) + CHUNK_SIZE - 1) \div CHUNK_SIZE) |->
        Slice(items, (k - 1) * CHUNK_SIZE, k * CHUNK_SIZE)]

\* process_folder finds the file and no part, and split_json_file reads
\* it: a file that is no JSON, no list or an empty list is left as it is.
\* split_data keeps the list that was read.
SplitJsonFile ==
    /\ pc = "process_folder"
    /\ Exists(fs, filename)
    /\ glob_parts(fs) = {}
    /\ IF fs[filename].t = "list" /\ fs[filename].items # <<>>
       THEN /\ split_data' = fs[filename].items
            /\ idx' = 1
            /\ pc' = "split_write"
       ELSE /\ pc' = "returned"
            /\ UNCHANGED <<split_data, idx>>
    /\ UNCHANGED <<masterVars, mode, updaterVars, fs, part_files, pf, merged_data>>

\* One pass of the loop over the chunks: the part file is written, or the
\* write raises and the script ends with the parts written so far.
SplitWritePart ==
    /\ pc = "split_write"
    /\ \E ok \in BOOLEAN :
         IF ok
         THEN /\ fs' = [p \in DOMAIN fs \cup {part_file(idx)} |->
                           IF p = part_file(idx)
                           THEN [t |-> "list", items |-> split_chunks(split_data)[idx]]
                           ELSE fs[p]]
              /\ idx' = idx + 1
              /\ pc' = IF idx = Len(split_chunks(split_data)) THEN "split_unlink"
                        ELSE "split_write"
         ELSE /\ pc' = "crashed"
              /\ UNCHANGED <<fs, idx>>
    /\ UNCHANGED <<masterVars, mode, updaterVars, split_data, part_files, pf, merged_data>>

\* file_path.unlink() after the loop
SplitUnlink ==
    /\ pc = "split_unlink"
    /\ fs' = Unlink(fs, filename)
    /\ pc' = "returned"
    /\ UNCHANGED <<masterVars, mode, updaterVars, splitVars>>

\* process_folder finds parts and no file, and merge_json_files sorts them.
MergeJsonFiles ==
    /\ pc = "process_folder"
    /\ ~Exists(fs, filename)
    /\ glob_parts(fs) # {}
    /\ part_files' = sorted_parts(glob_parts(fs))
    /\ merged_data' = <<>>
    /\ pf' = 1
    /\ pc' = "merge_read"
    /\ UNCHANGED <<masterVars, mode, updaterVars, fs, split_data, idx>>

\* One pass of the loop over the parts: the part is read and its items
\* are appended, or the read raises and the part is skipped.
MergeReadPart ==
    /\ pc = "merge_read"
    /\ \E ok \in BOOLEAN :
         merged_data' = IF ok THEN merged_data \o fs[part_files[pf]].items ELSE merged_data
    /\ pf' = pf + 1
    /\ pc' = IF pf = Len(part_files) THEN "merge_write" ELSE "merge_read"
    /\ UNCHANGED <<masterVars, mode, updaterVars, fs, split_data, idx, part_files>>

\* json.dump(merged_data, f) into the file
MergeWrite ==
    /\ pc = "merge_write"
    /\ fs' = [p \in DOMAIN fs \cup {filename} |->
                 IF p = filename THEN [t |-> "list", items |-> merged_data] ELSE fs[p]]
    /\ pc' = "returned"
    /\ UNCHANGED <<masterVars, mode, updaterVars, splitVars>>

\* process_folder finds both the file and parts, or neither.
NoAction ==
    /\ pc = "process_folder"
    /\ Exists(fs, filename) <=> glob_parts(fs) # {}
    /\ pc' = "returned"
    /\ UNCHANGED <<masterVars, mode, updaterVars, splitVars, fs>>

\* The script is run again.
RunAgain ==
    /\ pc \in {"returned", "crashed"}
    /\ pc' = "process_folder"
    /\ UNCHANGED <<masterVars, mode, updaterVars, splitVars, fs>>

(***************************************************************************)
(* Specifications.                                                         *)
(***************************************************************************)
\* The other scripts have not run.
ToolsIdle ==
    /\ json_files = <<>>
    /\ file = 0
    /\ entries = <<>>
    /\ entry = 0
    /\ all_success = TRUE
    /\ notes = <<>>
    /\ requests = <<>>
    /\ report = <<>>
    /\ split_data = <<>>
    /\ idx = 0
    /\ part_files = <<>>
    /\ pf = 0
    /\ merged_data = <<>>

\* The state before anything ran, but for the input, the options and the disk.
Idle ==
    /\ exit = "none"
    /\ chunks = <<>>
    /\ chunk_paths = <<>>
    /\ i = 0
    /\ successful_chunks = 0
    /\ failed_chunks = <<>>
    /\ overall_attempt = 0
    /\ attempt = 0
    /\ last_error = NoError
    /\ inv = "none"
    /\ raw_output = <<>>
    /\ ret = "none"
    /\ interrupted = FALSE
    /\ calls = 0
    /\ inv_calls = 0
    /\ inv_sleeps = 0
    /\ outer_sleeps = 0
    /\ out_writes = 0
    /\ attempts = <<>>
    /\ results = <<>>

\* ceil(n / size) for size > 0.
CeilDiv(n, size) == (n + size - 1) \div size

\* The pipeline: args.chunk_size > 0, an input of at most MaxItems items
\* that makes at most MaxChunks chunks, the instruction file there or not.
\* A run makes at most MaxAttempts outer attempts over all its chunks.
Init ==
    /\ Idle
    /\ args = DefaultArgs
    /\ delay = <<>>
    /\ ToolsIdle
    /\ api_max_retries = INNER_MAX_RETRIES
    /\ pc = "start"
    /\ mode = "question-tagging"
    /\ remote = PipelineRemote
    /\ chunk_size \in 1..MaxChunkSize
    /\ max_retries \in (-1)..MaxRetries
    /\ input \in BadInputs \cup
            {[t |-> "list", items |-> [k \in 1..n |-> k]] : n \in 0..MaxItems}
    /\ input.t = "list" =>
            /\ CeilDiv(Len(input.items), chunk_size) <= MaxChunks
            /\ CeilDiv(Len(input.items), chunk_size) * (max_retries + 1) <= MaxAttempts
    /\ fs \in {<<>>, [p \in {InstructionPath} |-> <<>>]}

Next ==
    \/ CreateInputChunks
    \/ WriteChunk
    \/ BeginChunk
    \/ RemoteCall
    \/ InnerSleep
    \/ HandleInvocation
    \/ SaveLog
    \/ ValidateAndSave
    \/ OuterSleep
    \/ Tally
    \/ TallyInterrupted
    \/ Summary
    \/ Interrupt

Spec == Init /\ [][Next]_vars

\* The steps of the program itself, and the remote calls and the sleeps
\* that return: every step but the user's interruption and the validation.
Progress ==
    \/ CreateInputChunks
    \/ WriteChunk
    \/ BeginChunk
    \/ RemoteCall
    \/ InnerSleep
    \/ HandleInvocation
    \/ SaveLog
    \/ OuterSleep
    \/ Tally
    \/ Summary

\* save_and_validate_json after the log is straight-line code over the
\* parsed items: it returns, and the runner goes to its return or its sleep.
ValidationReturns == pc = "validate" /\ pc' \in {"ret", "outer_sleep"}

\* The pipeline when the program keeps running: a step of the program that
\* can be taken is taken, a remote call and a sleep return.  The user is
\* free to interrupt or not.
\* It runs on the inputs of Init, one item a chunk.
InitLive == Init /\ chunk_size = 1

SpecLive == InitLive /\ [][Next]_vars /\ WF_vars(Progress) /\ WF_pc(ValidationReturns)

\* calculate_delay on its own, as the retry loops call it: with the default
\* base, maximum and factor, for attempt 0, 1, 2, ... in turn, each call
\* with its own draw of random.random().  The last two delays are kept.
CalculateDelay ==
    /\ pc = "calculate_delay"
    /\ attempt <= MaxDelayAttempt
    /\ \E u \in 0..(Resolution - 1) :
         delay' = (IF delay = <<>> THEN <<>> ELSE <<delay[Len(delay)]>>) \o
                  <<[attempt |-> attempt, u |-> u,
                     value |-> calculate_delay(attempt, DEFAULT_BASE_DELAY, DEFAULT_MAX_DELAY,
                                               DEFAULT_BACKOFF_FACTOR, u)]>>
    /\ attempt' = attempt + 1
    /\ UNCHANGED <<toolVars, args, input, chunk_size, max_retries, mode, remote, exit, chunks, chunk_paths,
                   orchVars, runVars, api_max_retries, last_error, inv, raw_output, calls,
                   inv_calls, inv_sleeps, fs, pc, i>>

InitDelay ==
    /\ Idle
    /\ args = DefaultArgs
    /\ delay = <<>>
    /\ ToolsIdle
    /\ api_max_retries = INNER_MAX_RETRIES
    /\ pc = "calculate_delay"
    /\ mode = "question-tagging"
    /\ remote = PipelineRemote
    /\ input = [t |-> "list", items |-> <<1>>]
    /\ chunk_size = 1
    /\ max_retries = MaxDelayAttempt + 1
    /\ fs = <<>>

SpecDelay == InitDelay /\ [][CalculateDelay]_vars

\* Either mode: the pipeline of Init, and the single-file mode on the same
\* inputs with chunk_size = 0 or chunk_size < 0.
InitMode ==
    /\ Idle
    /\ args = DefaultArgs
    /\ delay = <<>>
    /\ ToolsIdle
    /\ api_max_retries = INNER_MAX_RETRIES
    /\ pc = "start"
    /\ mode = "question-tagging"
    /\ remote = PipelineRemote
    /\ chunk_size \in (-1)..MaxChunkSize
    /\ max_retries \in (-1)..MaxRetries
    /\ input \in BadInputs \cup
            {[t |-> "list", items |-> [k \in 1..n |-> k]] : n \in 0..MaxItems}
    /\ (input.t = "list" /\ chunking_enabled(chunk_size)) =>
            /\ CeilDiv(Len(input.items), chunk_size) <= MaxChunks
            /\ CeilDiv(Len(input.items), chunk_size) * (max_retries + 1) <= MaxAttempts
    /\ fs \in {<<>>, [p \in {InstructionPath} |-> <<>>]}

NextMode ==
    \/ Next
    \/ BeginSingle
    \/ EndSingle

SpecMode == InitMode /\ [][NextMode]_vars

\* The name of an artifact of the pipeline under the paths of args.
NameOf(a, p) ==
    CASE p[1] = "input" -> chunk_input_name(a, p[2])
      [] p[1] = "output" -> chunk_output_name(a, p[2])
      [] p[1] = "log" -> attempt_log_name(a, p[2], p[3] - 1)
      [] OTHER -> <<"instructions", "question-tagging", ".md">>

\* The paths the user can give: the default ones, and input, output and log
\* in one directory, with stems with and without a dash and a digit (the
\* log under the stem of the output).
StemChoices == {<<"a">>, <<"a", "-", "1">>}
ArgChoices ==
    {DefaultArgs} \cup
    {[input |-> [dir |-> "d", stem |-> s1],
      output |-> [dir |-> "d", stem |-> s2],
      log |-> [dir |-> "d", stem |-> s2]] : s1 \in StemChoices, s2 \in StemChoices}

\* The pipeline on a list of at least two items, one or two items a chunk,
\* under any of these paths, with a remote service that returns a good
\* text or a truncated one, or raises a server error.
InitNames ==
    /\ Idle
    /\ args \in ArgChoices
    /\ delay = <<>>
    /\ ToolsIdle
    /\ api_max_retries = INNER_MAX_RETRIES
    /\ pc = "start"
    /\ mode = "question-tagging"
    /\ remote = Returns({RespOk, RespTruncated}) \cup Raises({ServerErr})
    /\ chunk_size \in 1..2
    /\ max_retries \in 0..1
    /\ input \in {[t |-> "list", items |-> [k \in 1..n |-> k]] : n \in 2..MaxItems}
    /\ CeilDiv(Len(input.items), chunk_size) \in 2..MaxChunks
    /\ CeilDiv(Len(input.items), chunk_size) * (max_retries + 1) <= MaxAttempts
    /\ fs = [p \in {InstructionPath} |-> <<>>]

SpecNames == InitNames /\ [][Next]_vars

\* process_chunks on its own, entered with a complete plan of one-item
\* chunks.  Between create_input_chunks and the runner of a chunk the files
\* are out of the program's hands: any of the chunk inputs and the
\* instruction document may be there or not when process_chunks starts.
InitRead ==
    /\ args = DefaultArgs
    /\ delay = <<>>
    /\ ToolsIdle
    /\ api_max_retries = INNER_MAX_RETRIES
    /\ mode = "question-tagging"
    /\ remote = Returns({RespOk, RespTruncated}) \cup Raises({ServerErr})
    /\ chunk_size = 1
    /\ max_retries \in 0..1
    /\ input \in {[t |-> "list", items |-> [k \in 1..n |-> k]] : n \in 1..MaxItems}
    /\ Len(input.items) * (max_retries + 1) <= MaxAttempts
    /\ chunks = chunk_json_data(input.items, chunk_size)
    /\ chunk_paths = [k \in 1..Len(chunks) |-> chunk_input_path(k)]
    /\ \E present \in SUBSET ({chunk_input_path(k) : k \in 1..Len(chunks)} \cup {InstructionPath}) :
           fs = [p \in present |-> IF p = InstructionPath THEN <<>> ELSE chunks[p[2]]]
    /\ pc = "loop"
    /\ i = 1
    /\ exit = "none"
    /\ successful_chunks = 0
    /\ failed_chunks = <<>>
    /\ overall_attempt = 0
    /\ attempt = 0
    /\ last_error = NoError
    /\ inv = "none"
    /\ raw_output = <<>>
    /\ ret = "none"
    /\ interrupted = FALSE
    /\ calls = 0
    /\ inv_calls = 0
    /\ inv_sleeps = 0
    /\ outer_sleeps = 0
    /\ out_writes = 0
    /\ attempts = <<>>
    /\ results = <<>>

NextRead ==
    \/ BeginChunk
    \/ RemoteCall
    \/ InnerSleep
    \/ HandleInvocation
    \/ SaveLog
    \/ ValidateAndSave
    \/ OuterSleep
    \/ Tally
    \/ TallyInterrupted
    \/ Summary
    \/ Interrupt

SpecRead == InitRead /\ [][NextRead]_vars

\* batch-updater's process_files on a data/output of at most MaxFiles files
\* that hold at most MaxEntries entries in all, data/input holding the
\* first files of at most MaxFiles, the note of the store with no tag, with
\* a tag of the subject, or with that and a tag that only begins like it.
NoteIds == {1}
OldTag == <<"ENG", "::", "old">>
LookAlikeTag == <<"ENG", "INE">>
StoreTags == {OldTag, LookAlikeTag}
NewTag == <<"ENG", "::", "new">>
UnknownSubjectTag == <<"XX", "::", "new">>

UpdaterEntries ==
    UNION {
        {[noteId |-> IntVal(n), newTag |-> StrVal(NewTag)],
         [noteId |-> IntVal(n), newTag |-> StrVal(UnknownSubjectTag)],
         [noteId |-> StrVal("abc"), newTag |-> StrVal(NewTag)],
         [noteId |-> IntVal(n), oldTag |-> StrVal(OldTag), newTag |-> StrVal(NewTag)],
         [noteId |-> IntVal(n), Extra |-> StrVal("text")]}
        : n \in NoteIds}
    \cup {[scalar |-> 5]}

RECURSIVE ListsUpTo(_, _)
ListsUpTo(S, n) ==
    IF n = 0 THEN {<<>>}
    ELSE LET shorter == ListsUpTo(S, n - 1)
         IN shorter \cup {Append(l, x) : l \in {m \in shorter : Len(m) = n - 1}, x \in S}

\* lens[1] + ... + lens[k]
RECURSIVE SumTo(_, _)
SumTo(lens, k) == IF k = 0 THEN 0 ELSE lens[k] + SumTo(lens, k - 1)

InitUpdater ==
    /\ Idle
    /\ args = DefaultArgs
    /\ delay = <<>>
    /\ api_max_retries = INNER_MAX_RETRIES
    /\ mode = "none"
    /\ remote = PipelineRemote
    /\ input = [t |-> "list", items |-> <<>>]
    /\ chunk_size = 0
    /\ max_retries = 0
    /\ pc = "start"
    /\ json_files = <<>>
    /\ file = 0
    /\ entries = <<>>
    /\ entry = 0
    /\ all_success = TRUE
    /\ requests = <<>>
    /\ report = <<>>
    /\ split_data = <<>>
    /\ idx = 0
    /\ part_files = <<>>
    /\ pf = 0
    /\ merged_data = <<>>
    /\ notes \in [NoteIds -> {{}, {OldTag}, StoreTags}]
    /\ \E n \in 0..MaxFiles : \E ins \in {1..m : m \in 0..MaxFiles} :
         \E kinds \in [1..n -> {"notjson", "notlist", "list"}] :
         \E lens \in [1..n -> 0..MaxEntries] :
            /\ \A k \in 1..n : kinds[k] # "list" => lens[k] = 0
            /\ SumTo(lens, n) <= MaxEntries
            /\ \E all \in ListsUpTo(UpdaterEntries, MaxEntries) :
                 /\ Len(all) = SumTo(lens, n)
                 /\ fs = [p \in {OutputFile(k) : k \in 1..n} \cup {InputFile(k) : k \in ins} |->
                            IF p[1] = "output"
                            THEN [t |-> kinds[p[2]],
                                  items |-> SubSeq(all, SumTo(lens, p[2] - 1) + 1,
                                                   SumTo(lens, p[2]))]
                            ELSE [t |-> "list", items |-> <<>>]]

NextUpdater ==
    \/ ListFiles
    \/ ReadFile
    \/ ProcessEntry
    \/ FinishFile

SpecUpdater == InitUpdater /\ [][NextUpdater]_vars

\* auto-split-merge run again and again on one folder that holds nothing,
\* or <name>.json with no JSON, no list, or a list of distinct items that
\* makes at most MaxParts parts, the last part with one item or full.
SplitLengths ==
    {0} \cup {CHUNK_SIZE * (p - 1) + r : p \in 1..MaxParts, r \in {1, CHUNK_SIZE}}

InitSplitMerge ==
    /\ Idle
    /\ args = DefaultArgs
    /\ delay = <<>>
    /\ ToolsIdle
    /\ api_max_retries = INNER_MAX_RETRIES
    /\ mode = "none"
    /\ remote = PipelineRemote
    /\ input = [t |-> "list", items |-> <<>>]
    /\ chunk_size = 0
    /\ max_retries = 0
    /\ pc = "process_folder"
    /\ fs \in {<<>>} \cup
             {[p \in {filename} |-> c] :
                 c \in {[t |-> "notjson", items |-> <<>>], [t |-> "notlist", items |-> <<>>]}
                       \cup {[t |-> "list", items |-> [k \in 1..n |-> k]] : n \in SplitLengths}}

NextSplitMerge ==
    \/ SplitJsonFile
    \/ SplitWritePart
    \/ SplitUnlink
    \/ MergeJsonFiles
    \/ MergeReadPart
    \/ MergeWrite
    \/ NoAction
    \/ RunAgain

SpecSplitMerge == InitSplitMerge /\ [][NextSplitMerge]_vars

\* chunk_json_data on its own, applied to any list of at most MaxLen items.
ApplyChunk ==
    /\ pc = "chunk_json_data"
    /\ chunks' = chunk_json_data(input.items, chunk_size)
    /\ pc' = "returned"
    /\ UNCHANGED <<toolVars, args, delay, input, chunk_size, max_retries, mode, remote, exit, chunk_paths,
                   orchVars, runVars, invVars, fs, i>>

InitChunk ==
    /\ Idle
    /\ args = DefaultArgs
    /\ delay = <<>>
    /\ ToolsIdle
    /\ api_max_retries = INNER_MAX_RETRIES
    /\ pc = "chunk_json_data"
    /\ mode = "question-tagging"
    /\ remote = PipelineRemote
    /\ input \in InputLists(MaxLen)
    /\ chunk_size \in 1..MaxChunkSize
    /\ max_retries = 0
    /\ fs = <<>>

SpecChunk == InitChunk /\ [][ApplyChunk]_vars

\* create_input_chunks on its own, on any input file.
InitPlan ==
    /\ Idle
    /\ args = DefaultArgs
    /\ delay = <<>>
    /\ ToolsIdle
    /\ api_max_retries = INNER_MAX_RETRIES
    /\ pc = "start"
    /\ mode = "question-tagging"
    /\ remote = PipelineRemote
    /\ input \in InputLists(MaxLen) \cup BadInputs
    /\ chunk_size \in 1..MaxChunkSize
    /\ max_retries = 0
    /\ fs = <<>>

NextPlan == CreateInputChunks \/ WriteChunk

SpecPlan == InitPlan /\ [][NextPlan]_vars

\* call_gemini_api_with_retry on its own, for any max_retries >= 0 and a
\* remote service that can raise any error.
InitInvoke ==
    /\ Idle
    /\ args = DefaultArgs
    /\ delay = <<>>
    /\ ToolsIdle
    /\ pc = "call"
    /\ mode = "question-tagging"
    /\ remote = AnyRemote
    /\ api_max_retries \in 0..MaxBudget
    /\ input = [t |-> "list", items |-> <<1>>]
    /\ chunk_size = 1
    /\ max_retries = 0
    /\ fs = <<>>

NextInvoke == RemoteCall \/ InnerSleep

SpecInvoke == InitInvoke /\ [][NextInvoke]_vars

\* save_and_validate_json on its own, as the runner calls it in the first
\* outer attempt of chunk 1.  The elements a response array can hold, for
\* the schema of mode m (noteId and the string fields after it):
\* conforming in declared order, conforming in reverse order with a numeric
\* string for noteId, the last field missing, an integer in the last field,
\* a noteId that is the word "missing", a value that is no object; and
\* conforming with an undeclared key, conforming with a repeated key, a null
\* in the last field.
Elems(m) ==
    LET sch == Schema(m)
        n == Len(sch)
        good == [f \in 1..n |->
                    <<sch[f][1], IF sch[f][2] = "int" THEN IntVal("1") ELSE StrVal("a")>>]
        reversed == [f \in 1..n |->
                    <<sch[n + 1 - f][1],
                      IF sch[n + 1 - f][2] = "int" THEN StrVal("7") ELSE StrVal("b")>>]
        with_last(val) == [good EXCEPT ![n] = <<sch[n][1], val>>]
    IN [core |-> {Obj(good),
                  Obj(reversed),
                  Obj(SubSeq(good, 1, n - 1)),
                  Obj(with_last(IntVal("2"))),
                  Obj([good EXCEPT ![1] = <<"noteId", StrVal("missing")>>]),
                  Tok("scalar")},
        more |-> {Obj(<< <<"deck", StrVal("x")>> >> \o reversed),
                  Obj(<< <<"noteId", StrVal("x")>> >> \o Tail(good)
                          \o << <<"noteId", IntVal("2")>> >>),
                  Obj(with_last(NullVal))}]

ListText(items) == <<Tok("[")>> \o items \o <<Tok("]")>>

\* json.dumps of the ordered items: an array of objects whose members are
\* written in the order of the dict.
json_dumps(items) == ListText([j \in 1..Len(items) |-> Obj(items[j])])
Fenced(text) == <<Tok("fence_json"), Tok("ws")>> \o text \o <<Tok("ws"), Tok("fence")>>

\* The texts the invoker can hand over (it strips them): arrays of up to
\* MaxElems of the first six elements; arrays of at most one element of any
\* kind, plain, in a fence, after a byte order mark, or cut before the
\* closing bracket; texts that are no array.
ValTexts(m) ==
    LET any == SeqsUpTo(Elems(m).core \cup Elems(m).more, 1)
    IN {ListText(e) : e \in SeqsUpTo(Elems(m).core, MaxElems) \cup any}
        \cup {Fenced(ListText(e)) : e \in any}
        \cup {<<Tok("bom")>> \o ListText(e) : e \in any}
        \cup {<<Tok("[")>> \o e : e \in any}
        \cup {<<e>> : e \in Elems(m).core}
        \cup {<<>>, <<Tok("junk")>>, <<Tok("bom")>>, <<Tok("scalar"), Tok("ws"), Tok("scalar")>>,
              Fenced(<<Tok("junk")>>), <<Tok("fence")>> \o ListText(<<>>) \o <<Tok("fence")>>}

\* An output artifact left by an earlier run.
OldOutput == << << <<"noteId", IntVal("9")>> >> >>

InitValidate ==
    /\ pc = "save"
    /\ args = DefaultArgs
    /\ delay = <<>>
    /\ ToolsIdle
    /\ exit = "none"
    /\ input = [t |-> "list", items |-> <<1>>]
    /\ chunk_size = 1
    /\ chunks = <<input.items>>
    /\ chunk_paths = <<chunk_input_path(1)>>
    /\ i = 1
    /\ max_retries \in 0..1
    /\ mode \in Modes
    /\ raw_output \in ValTexts(mode)
    /\ remote = Returns({raw_output})
    /\ fs \in {[p \in {InstructionPath, chunk_input_path(1)} |-> <<>>],
               [p \in {InstructionPath, chunk_input_path(1), chunk_output_path(1)} |->
                    IF p = chunk_output_path(1) THEN OldOutput ELSE <<>>]}
    /\ successful_chunks = 0
    /\ failed_chunks = <<>>
    /\ interrupted = FALSE
    /\ results = <<>>
    /\ overall_attempt = 0
    /\ ret = "none"
    /\ outer_sleeps = 0
    /\ out_writes = 0
    /\ attempts = <<>>
    /\ api_max_retries = INNER_MAX_RETRIES
    /\ attempt = 0
    /\ last_error = NoError
    /\ inv = "text"
    /\ calls = 1
    /\ inv_calls = 1
    /\ inv_sleeps = 0

NextValidate == SaveLog \/ ValidateAndSave

SpecValidate == InitValidate /\ [][NextValidate]_vars

(***************************************************************************)
(* Properties.                                                             *)
(***************************************************************************)
NumChunks == Len(chunk_paths)
LastAttempt == attempts[Len(attempts)]
Running == {"call", "inner_sleep", "invoked", "save", "validate", "outer_sleep"}

\* The log artifacts of chunk k that exist.
LogsOf(k) == {p \in DOMAIN fs : p[1] = "log" /\ p[2] = k}

\* Every outer attempt so far saw its invoker raise RetryableError: every
\* remote call of the chunk run failed with a retryable error.
AlwaysRetryable ==
    /\ calls > 0
    /\ \A a \in 1..Len(attempts) : ~attempts[a].text /\ attempts[a].outcome = "Retryable"

\* C1: for every list and every chunk_size > 0 the chunks of chunk_json_data,
\* concatenated in order, are the list; every chunk has between 1 and
\* chunk_size items, and every chunk but the last has exactly chunk_size.
C1_Partition ==
    pc = "returned" =>
        /\ Flatten(chunks) = input.items
        /\ \A k \in 1..Len(chunks) : Len(chunks[k]) >= 1 /\ Len(chunks[k]) <= chunk_size
        /\ \A k \in 1..(Len(chunks) - 1) : Len(chunks[k]) = chunk_size

C1_Witness ==
    /\ pc = "returned"
    /\ Len(chunks) >= 2
    /\ Len(chunks[Len(chunks)]) < chunk_size

\* C2: for n > 0 items create_input_chunks writes exactly ceil(n / chunk_size)
\* artifacts; artifact k is named by k and holds the items at positions
\* [(k-1)*chunk_size, min(k*chunk_size, n)); the returned paths ascend in k.
C2_ChunkArtifacts ==
    pc = "loop" =>
        LET n == Len(input.items)
            count == CeilDiv(n, chunk_size)
        IN /\ n > 0
           /\ Len(chunk_paths) = count
           /\ DOMAIN fs = {<<"input", k>> : k \in 1..count}
           /\ \A k \in 1..count :
                /\ chunk_paths[k] = <<"input", k>>
                /\ fs[<<"input", k>>] =
                       [j \in 1..(Min(k * chunk_size, n) - (k - 1) * chunk_size) |->
                            input.items[(k - 1) * chunk_size + j]]

C2_Witness ==
    /\ pc = "loop"
    /\ Len(chunk_paths) >= 2
    /\ Len(fs[chunk_paths[Len(chunk_paths)]]) < chunk_size

\* C3: when every remote call fails with a retryable error and
\* max_retries >= 0, the runner makes exactly max_retries + 1 outer
\* attempts and then returns False.
C3_BudgetExhaustion ==
    (pc = "ret" /\ max_retries >= 0 /\ AlwaysRetryable) =>
        /\ Len(attempts) = max_retries + 1
        /\ overall_attempt = max_retries
        /\ ret = "False"

C3_Witness ==
    /\ pc = "ret"
    /\ max_retries >= 1
    /\ AlwaysRetryable
    /\ Len(attempts) = max_retries + 1

\* C4 as claimed: every outer attempt leaves a persisted log whatever its
\* outcome (success, retryable failure, terminal failure); with an
\* invocation that always raises a retryable error there are
\* max_retries + 1 logs of the chunk when the runner returns.
C4_LogPerAttempt ==
    pc = "ret" =>
        /\ \A a \in 1..Len(attempts) :
              attempts[a].outcome \in {"Success", "Retryable", "Terminal"} =>
                  Exists(fs, <<"log", i, a>>)
        /\ (max_retries >= 0 /\ AlwaysRetryable) =>
                Cardinality(LogsOf(i)) = max_retries + 1

\* C4 amended: when the runner returns, the logs of the chunk are those of
\* the outer attempts whose invocation returned text and whose log write
\* did not fail, each under the attempt's number; an attempt whose
\* invocation raised leaves none, so an invocation that always raises a
\* retryable error leaves no log at all.
C4_LogPerReturnedText ==
    pc = "ret" =>
        /\ LogsOf(i) = {<<"log", i, a>> : a \in {b \in 1..Len(attempts) :
                            attempts[b].text /\ ~attempts[b].log_failed}}
        /\ AlwaysRetryable => LogsOf(i) = {}

C4_Witness ==
    /\ pc = "ret"
    /\ Len(attempts) = 3
    /\ ~attempts[1].text
    /\ attempts[2].text /\ ~attempts[2].log_failed
    /\ attempts[3].text /\ ~attempts[3].log_failed
    /\ Cardinality(LogsOf(i)) = 2

\* The indices of the chunks whose runner did not return True, ascending.
FailedIndices ==
    SelectSeq([k \in 1..Len(results) |-> k], LAMBDA k : results[k] # "True")

\* C5: without an interruption process_chunks runs the runner on every
\* chunk, and at the summary successful_chunks counts the chunks whose
\* runner returned True and failed_chunks lists the indices of the others.
C5_PartialFailureIsolation ==
    ((pc = "summary" \/ exit = "summary") /\ ~interrupted) =>
        /\ Len(results) = NumChunks
        /\ successful_chunks = Cardinality({k \in 1..NumChunks : results[k] = "True"})
        /\ failed_chunks = FailedIndices

C5_Witness ==
    /\ pc = "done"
    /\ exit = "summary"
    /\ ~interrupted
    /\ results = <<"True", "False", "True">>
    /\ failed_chunks = <<2>>

\* C6: once an outer attempt ended in a terminal failure the runner has
\* returned False: it is at no remote call, sleep or validation, it slept
\* only between the attempts made, and the invoker that met a terminal
\* error raised at once, without sleeping or calling again.
C6_TerminalShortCircuit ==
    /\ (attempts # <<>> /\ LastAttempt.outcome = "Terminal") =>
            /\ ret = "False"
            /\ pc \notin Running
            /\ outer_sleeps = Len(attempts) - 1
    /\ (last_error # NoError /\ ~is_retryable_error(last_error)) =>
            /\ inv = "NonRetryable"
            /\ pc \notin {"call", "inner_sleep", "save", "validate", "outer_sleep"}
            /\ inv_calls = inv_sleeps + 1

C6_Witness ==
    /\ pc = "ret"
    /\ max_retries = 2
    /\ Len(attempts) = 1
    /\ LastAttempt.outcome = "Terminal"
    /\ calls = 1
    /\ outer_sleeps = 0

\* read_input_files raises NonRetryableError for chunk k.
ReadFails(k) == ~(Exists(fs, chunk_paths[k]) /\ Exists(fs, InstructionPath))

\* C7: the runner returns False only after a terminal failure (a
\* NonRetryableError, a non-retryable validation failure or an unexpected
\* exception) or after max_retries + 1 outer attempts that all ended in a
\* retryable failure; it never lets an exception reach process_chunks.
C7_FailedOnlyIfTerminalOrExhausted ==
    /\ ret \in {"none", "True", "False"}
    /\ \A k \in 1..Len(results) : results[k] \in {"True", "False"}
    /\ (pc = "ret" /\ ret = "False") =>
            \/ ReadFails(i)
            \/ attempts # <<>> /\ LastAttempt.outcome \in {"Terminal", "Unexpected"}
            \/ /\ Len(attempts) = IF max_retries >= 0 THEN max_retries + 1 ELSE 0
               /\ \A a \in 1..Len(attempts) : attempts[a].outcome = "Retryable"

C7_Witness ==
    /\ pc = "ret"
    /\ ret = "False"
    /\ max_retries = 1
    /\ Len(attempts) = 2
    /\ attempts[1].outcome = "Retryable" /\ attempts[1].text
    /\ attempts[2].outcome = "Retryable" /\ ~attempts[2].text

\* C8: the runner returns True exactly when an outer attempt validated and
\* wrote the output; that attempt is the last one, the runner is then at no
\* further call, log write or sleep, and the output is written at most once
\* in a chunk run and holds the validated items.
C8_SuccessWritesOnce ==
    /\ out_writes <= 1
    /\ out_writes = Cardinality({a \in 1..Len(attempts) : attempts[a].outcome = "Success"})
    /\ \A a \in 1..Len(attempts) :
          attempts[a].outcome = "Success" =>
              a = Len(attempts) /\ ret = "True" /\ pc \notin Running
    /\ pc = "ret" =>
          /\ ret = "True" <=> (attempts # <<>> /\ LastAttempt.outcome = "Success")
          /\ ret = "True" =>
                /\ Exists(fs, chunk_output_path(i))
                /\ fs[chunk_output_path(i)] = validate_json(raw_output, mode).items

C8_Witness ==
    /\ pc = "ret"
    /\ ret = "True"
    /\ Len(attempts) = 2
    /\ out_writes = 1
    /\ calls >= 3

\* C9: the invoker with budget b = max_retries makes at most b + 1 remote
\* calls; it returns at the first call that succeeds (every call before it
\* failed and was followed by a sleep) and calls no more after a success or
\* a terminal error.
C9_InvokerCalls ==
    /\ inv_calls <= api_max_retries + 1
    /\ pc \in {"call", "inner_sleep"} =>
          /\ inv = "none"
          /\ last_error = NoError \/ is_retryable_error(last_error)
    /\ inv = "text" =>
          /\ pc = "invoked"
          /\ inv_calls = inv_sleeps + 1
          /\ raw_output \in {Strip(r.text) : r \in {q \in remote : q.t = "text"}}
    /\ inv = "NonRetryable" =>
          /\ pc = "invoked"
          /\ inv_calls = inv_sleeps + 1
          /\ ~is_retryable_error(last_error)

C9_Witness ==
    /\ inv = "text"
    /\ api_max_retries >= 2
    /\ inv_calls = api_max_retries + 1

\* C10: when all b + 1 calls fail with retryable errors the invoker raises
\* RetryableError after the last call; it sleeps once after each of the
\* first b failures and not after the last one.
C10_InvokerExhaustion ==
    /\ inv = "Retryable" =>
          /\ pc = "invoked"
          /\ inv_calls = api_max_retries + 1
          /\ inv_sleeps = api_max_retries
          /\ is_retryable_error(last_error)
    /\ (pc = "invoked" /\ inv_calls = api_max_retries + 1 /\ inv # "text"
            /\ is_retryable_error(last_error)) => inv = "Retryable"
    /\ pc = "call" => inv_calls = attempt /\ inv_sleeps = attempt
    /\ pc = "inner_sleep" =>
          /\ attempt < api_max_retries
          /\ inv_calls = attempt + 1
          /\ inv_sleeps = attempt
          /\ is_retryable_error(last_error)

C10_Witness ==
    /\ inv = "Retryable"
    /\ api_max_retries = MaxBudget
    /\ inv_sleeps = MaxBudget

\* C11: the two retry layers are independent: every outer attempt runs the
\* invoker with the budget of INNER_MAX_RETRIES, starting from attempt 0
\* whatever the earlier outer attempts used, so a chunk run makes at most
\* (INNER_MAX_RETRIES + 1) * (max_retries + 1) remote calls, and exactly
\* that many when every call fails with a retryable error.
C11_IndependentLayers ==
    /\ pc \in Running => api_max_retries = INNER_MAX_RETRIES
    /\ pc = "call" => inv_calls = attempt /\ attempt <= INNER_MAX_RETRIES
    /\ pc = "inner_sleep" => inv_calls = attempt + 1 /\ attempt < INNER_MAX_RETRIES
    /\ pc \in {"call", "inner_sleep"} =>
          /\ Len(attempts) = overall_attempt
          /\ calls <= (INNER_MAX_RETRIES + 1) * overall_attempt + inv_calls
    /\ max_retries >= 0 => calls <= (INNER_MAX_RETRIES + 1) * (max_retries + 1)
    /\ (pc = "ret" /\ max_retries >= 0 /\ AlwaysRetryable) =>
          calls = (INNER_MAX_RETRIES + 1) * (max_retries + 1)

C11_Witness ==
    /\ pc = "ret"
    /\ max_retries >= 1
    /\ AlwaysRetryable
    /\ calls = (INNER_MAX_RETRIES + 1) * (max_retries + 1)

\* C12: the classifier gives every error exactly one of the two classes
\* (True: Retryable, False: Terminal); ConnectionError, TimeoutError and
\* ServerError (5xx) are Retryable; an error that is none of these and no
\* ClientError is Terminal, whatever its message says; the invoker raises
\* NonRetryableError exactly for the Terminal ones.
C12_ClassifierTotal ==
    /\ \A r \in remote : r.t = "error" =>
          /\ is_retryable_error(r.err) \in BOOLEAN
          /\ r.err.type \in {"ConnectionError", "TimeoutError", "ServerError"} =>
                is_retryable_error(r.err)
          /\ r.err.type \notin {"ConnectionError", "TimeoutError", "ServerError", "ClientError"} =>
                ~is_retryable_error(r.err)
    /\ last_error # NoError =>
          /\ last_error.type \in {"ConnectionError", "TimeoutError", "ServerError"} =>
                inv # "NonRetryable"
          /\ last_error.type = "Other" => inv = "NonRetryable" /\ pc = "invoked"
          /\ inv = "NonRetryable" <=> ~is_retryable_error(last_error)

C12_Witness ==
    /\ inv = "NonRetryable"
    /\ last_error.type = "Other"
    /\ "timeout" \in last_error.msg
    /\ inv_calls = 2

\* C13: a ClientError (4xx) is Terminal, except that it is Retryable
\* exactly when its lower-cased message has "rate limit", "429", "timeout"
\* or "connection"; the invoker retries the one and raises
\* NonRetryableError at once for the other.
C13_ClientErrorException ==
    /\ \A r \in remote : (r.t = "error" /\ r.err.type = "ClientError") =>
          (is_retryable_error(r.err) <=>
              r.err.msg \cap {"rate limit", "429", "timeout", "connection"} # {})
    /\ (last_error.type = "ClientError" /\ inv # "text") =>
          IF last_error.msg \cap {"rate limit", "429", "timeout", "connection"} = {}
          THEN inv = "NonRetryable" /\ pc = "invoked"
          ELSE inv \in {"none", "Retryable"}

C13_Witness ==
    /\ pc = "inner_sleep"
    /\ last_error.type = "ClientError"
    /\ last_error.msg = {"connection"}

\* The validator gave its verdict on raw_output in the last outer attempt.
ValidationDone ==
    /\ pc \in {"ret", "outer_sleep"}
    /\ attempts # <<>>
    /\ LastAttempt.text
    /\ LastAttempt.outcome \in {"Success", "Retryable", "Terminal"}

Cleaned == clean_json_output(raw_output)
Parsed == json_loads(Cleaned)

\* The output artifact of chunk i is as it was before the validator ran.
OutputUntouched ==
    /\ out_writes = 0
    /\ Exists(fs, chunk_output_path(i)) => fs[chunk_output_path(i)] = OldOutput

\* After a failed validation the runner sleeps and retries exactly when the
\* failure is retryable and outer attempts remain; else it returns False.
FailureHandled ==
    /\ OutputUntouched
    /\ pc = "outer_sleep" <=>
            (LastAttempt.outcome = "Retryable" /\ overall_attempt < max_retries)
    /\ pc = "ret" => ret = "False"

\* C14 as claimed: a text that does not parse fails validation, retryably
\* if the parser's message mentions truncation, incompleteness or
\* malformation or the cleaned text has fewer than 10 characters, and
\* terminally otherwise.
C14_ParseFailure ==
    (ValidationDone /\ ~LastAttempt.log_failed /\ ~Parsed.ok) =>
        LastAttempt.outcome =
            IF \/ Parsed.msg \cap {"truncated", "incomplete", "malformed"} # {}
               \/ TextLen(Cleaned) < 10
            THEN "Retryable" ELSE "Terminal"

\* C14 amended: a text that does not parse fails validation, retryably if
\* the parser's message has one of the words "unexpected", "truncated",
\* "incomplete", "malformed" or the cleaned text has fewer than 10
\* characters, and terminally otherwise; the output is not written.
C14_ParseFailureKeywords ==
    (ValidationDone /\ ~Parsed.ok) =>
        /\ LastAttempt.outcome =
                IF \/ Parsed.msg \cap {"unexpected", "truncated", "incomplete", "malformed"} # {}
                   \/ TextLen(Cleaned) < 10
                THEN "Retryable" ELSE "Terminal"
        /\ FailureHandled

C14_Witness ==
    /\ ValidationDone
    /\ ~Parsed.ok
    /\ Parsed.msg = {}
    /\ TextLen(Cleaned) < 10
    /\ Len(Cleaned) >= 2
    /\ pc = "outer_sleep"

\* C15: a text that parses to a value that is no array, or to the empty
\* array, fails validation retryably: the runner retries while outer
\* attempts remain, and the output artifact is not written.
C15_ShapeFailure ==
    (ValidationDone /\ Parsed.ok /\ (Parsed.t # "list" \/ Len(Parsed.items) = 0)) =>
        /\ LastAttempt.outcome = "Retryable"
        /\ FailureHandled

C15_Witness ==
    /\ ValidationDone
    /\ Parsed.ok
    /\ Parsed.t = "list"
    /\ Parsed.items = <<>>
    /\ raw_output # Cleaned
    /\ pc = "outer_sleep"
    /\ Exists(fs, chunk_output_path(i))

\* An element of the response conforms to the schema of mode m.
Conforms(e, m) == e.k = "obj" /\ validate_item(e.pairs, m).ok

\* The element whose validation raised: the first that does not conform.
FirstBad(items, m) ==
    items[CHOOSE j \in 1..Len(items) :
              /\ ~Conforms(items[j], m)
              /\ \A h \in 1..(j - 1) : Conforms(items[h], m)]

SchemaFails ==
    /\ Parsed.ok /\ Parsed.t = "list" /\ Len(Parsed.items) > 0
    /\ \E j \in 1..Len(Parsed.items) : ~Conforms(Parsed.items[j], mode)

\* The validation message of the element that raised has one of the words
\* of SchemaKeywords; an element that is no object raises no validation
\* message.
MessageMentions(e, m) == e.k = "obj" /\ validate_item(e.pairs, m).mentions

\* C16 as claimed: a non-empty array with an element that does not conform
\* fails validation, retryably if the validation message mentions a missing
\* or required field or the array has fewer than 3 elements, and terminally
\* otherwise, also for an element that is no object.
C16_SchemaFailure ==
    (ValidationDone /\ ~LastAttempt.log_failed /\ SchemaFails) =>
        LastAttempt.outcome =
            IF \/ MessageMentions(FirstBad(Parsed.items, mode), mode)
               \/ Len(Parsed.items) < 3
            THEN "Retryable" ELSE "Terminal"

\* C16 amended: when the first element that does not conform is an object,
\* the failure is retryable if the validation message has one of the words
\* of SchemaKeywords or the array has fewer than 3 elements, and terminal
\* otherwise; when it is no object, the failure is retryable whatever the
\* number of elements.  The output is not written.
C16_SchemaFailureByKind ==
    (ValidationDone /\ SchemaFails) =>
        /\ LastAttempt.outcome =
                IF \/ FirstBad(Parsed.items, mode).k # "obj"
                   \/ MessageMentions(FirstBad(Parsed.items, mode), mode)
                   \/ Len(Parsed.items) < 3
                THEN "Retryable" ELSE "Terminal"
        /\ FailureHandled

C16_Witness ==
    /\ ValidationDone
    /\ SchemaFails
    /\ Len(Parsed.items) = 3
    /\ FirstBad(Parsed.items, mode).k = "obj"
    /\ ~MessageMentions(FirstBad(Parsed.items, mode), mode)
    /\ \E j \in 1..3 : MessageMentions(Parsed.items[j], mode)
    /\ LastAttempt.outcome = "Terminal"

\* Every element of the response conforms: the text parses to a non-empty
\* array of objects that validate against the schema of the mode.
AllConform ==
    /\ Parsed.ok /\ Parsed.t = "list" /\ Len(Parsed.items) > 0
    /\ \A j \in 1..Len(Parsed.items) : Conforms(Parsed.items[j], mode)

\* C17: validation is all-or-nothing: the validator's step changes the
\* artifacts only when every element of the response conforms, and then it
\* writes one output item per element; when the text does not parse, is no
\* array, is empty or has an element that does not conform, every artifact
\* is left as it was: no output of the conforming elements.
C17_AllOrNothing ==
    [][pc = "validate" =>
          IF AllConform
          THEN \/ fs' = fs
               \/ /\ DOMAIN fs' = DOMAIN fs \cup {chunk_output_path(i)}
                  /\ \A p \in DOMAIN fs \ {chunk_output_path(i)} : fs'[p] = fs[p]
                  /\ Len(fs'[chunk_output_path(i)]) = Len(Parsed.items)
          ELSE fs' = fs]_vars

C17_Witness ==
    /\ ValidationDone
    /\ SchemaFails
    /\ Len(Parsed.items) = 3
    /\ Conforms(Parsed.items[1], mode)
    /\ Conforms(Parsed.items[3], mode)
    /\ Exists(fs, chunk_output_path(i))
    /\ fs[chunk_output_path(i)] = OldOutput

\* The permutations of 1..n, and the items with the members of each
\* rearranged by the permutation f.
Perms(n) == {f \in [1..n -> 1..n] : \A a, b \in 1..n : f[a] = f[b] => a = b}
Rearranged(items, f) ==
    [j \in 1..Len(items) |-> [h \in 1..Len(items[j]) |-> items[j][f[h]]]]

\* C18: on success every output item has exactly the declared keys of the
\* mode in declared order (noteId first), whatever keys and order the
\* response had; and validating the written output again, serialised with
\* its keys in any order, gives the same output.
C18_CanonicalOrder ==
    (ValidationDone /\ LastAttempt.outcome = "Success") =>
        LET out == fs[chunk_output_path(i)]
            sch == Schema(mode)
        IN /\ Len(out) = Len(Parsed.items)
           /\ \A j \in 1..Len(out) :
                 /\ Len(out[j]) = Len(sch)
                 /\ \A f \in 1..Len(sch) : out[j][f][1] = sch[f][1]
                 /\ out[j][1][1] = "noteId"
           /\ \A f \in Perms(Len(sch)) :
                 validate_json(json_dumps(Rearranged(out, f)), mode) =
                     [success |-> TRUE, is_retryable |-> FALSE, items |-> out]

C18_Witness ==
    /\ ValidationDone
    /\ LastAttempt.outcome = "Success"
    /\ mode = "tag-auditor"
    /\ Len(Parsed.items) = 1
    /\ Parsed.items[1].pairs[1][1] = "deck"
    /\ Parsed.items[1].pairs[2][1] = "newTag"
    /\ fs[chunk_output_path(i)][1][3][1] = "newTag"

Verdicts == {"Success", "Retryable", "Terminal"}

\* C19 as claimed: in every attempt whose invocation returned text, the raw
\* text is in the attempt's log before validation runs and before the
\* output is written, and no verdict exists for a text that is not in its
\* log.
C19_LogBeforeValidation ==
    pc \in Running \cup {"ret"} =>
        /\ pc = "validate" =>
              /\ Exists(fs, <<"log", i, overall_attempt + 1>>)
              /\ fs[<<"log", i, overall_attempt + 1>>] = raw_output
        /\ \A a \in 1..Len(attempts) :
              (attempts[a].text /\ attempts[a].outcome \in Verdicts) =>
                  Exists(fs, <<"log", i, a>>)

\* C19 amended: in every attempt whose invocation returned text, the write
\* of the raw text to the attempt's log comes before any validation step
\* and before the write of the output; when the write succeeds, the log
\* holds the raw text before validation runs; when it fails, validation
\* goes on and gives a verdict for a text that was not persisted.
C19_LogAttemptedBeforeValidation ==
    pc \in Running \cup {"ret"} =>
        /\ pc = "save" =>
              /\ Len(attempts) = overall_attempt
              /\ out_writes = 0
              /\ ~Exists(fs, <<"log", i, overall_attempt + 1>>)
        /\ pc = "validate" =>
              /\ Len(attempts) = overall_attempt + 1
              /\ LastAttempt.text /\ LastAttempt.outcome = "Validating"
              /\ out_writes = 0
              /\ IF LastAttempt.log_failed
                 THEN ~Exists(fs, <<"log", i, overall_attempt + 1>>)
                 ELSE /\ Exists(fs, <<"log", i, overall_attempt + 1>>)
                      /\ fs[<<"log", i, overall_attempt + 1>>] = raw_output
        /\ \A a \in 1..Len(attempts) :
              (attempts[a].text /\ attempts[a].outcome \in Verdicts) =>
                  (Exists(fs, <<"log", i, a>>) <=> ~attempts[a].log_failed)
        /\ (pc = "ret" /\ attempts # <<>> /\ LastAttempt.text /\ ~LastAttempt.log_failed) =>
                fs[<<"log", i, Len(attempts)>>] = raw_output

C19_Witness ==
    /\ pc = "validate"
    /\ overall_attempt = 1
    /\ ~LastAttempt.log_failed
    /\ fs[<<"log", i, 2>>] = raw_output
    /\ raw_output # clean_json_output(raw_output)
    /\ ~Exists(fs, chunk_output_path(i))

\* C20: within one run every log write makes a new artifact, named by the
\* chunk and the outer attempt, so no two (chunk, attempt) pairs share a
\* log; and a log, once written, stays as it was written.
C20_LogsNeverOverwritten ==
    [][/\ \A p \in DOMAIN fs : p[1] = "log" => (p \in DOMAIN fs' /\ fs'[p] = fs[p])
       /\ (pc = "save" /\ pc' = "validate") =>
             IF attempts'[Len(attempts')].log_failed
             THEN fs' = fs
             ELSE /\ <<"log", i, overall_attempt + 1>> \notin DOMAIN fs
                  /\ DOMAIN fs' = DOMAIN fs \cup {<<"log", i, overall_attempt + 1>>}
                  /\ \A p \in DOMAIN fs : fs'[p] = fs[p]]_vars

C20_Witness ==
    /\ {<<"log", 1, 1>>, <<"log", 1, 2>>, <<"log", 2, 1>>, <<"log", 2, 2>>} \subseteq DOMAIN fs
    /\ fs[<<"log", 1, 1>>] = fs[<<"log", 2, 1>>]
    /\ fs[<<"log", 1, 1>>] # fs[<<"log", 1, 2>>]

C22_InterruptStopsLoop ==
    [][/\ (Interrupt /\ pc \in InTry \cup {"loop"}) =>
             /\ pc' = "summary"
             /\ exit' = "none"
             /\ fs' = fs
             /\ i' = i
       /\ (interrupted \/ exit = "interrupted") =>
             /\ fs' = fs
             /\ results' = results
             /\ i' = i
             /\ pc' \in {"summary", "done"}]_vars

\* C23: an empty list with chunk_size > 0 plans zero chunks and ends the run
\* without an error: no chunk artifact is made, no runner is called and no
\* remote call is made.
C23_EmptyInput ==
    (chunk_size > 0 /\ input.t = "list" /\ input.items = <<>> /\ pc # "start") =>
        /\ pc = "done"
        /\ exit = "no_chunks"
        /\ chunks = <<>> /\ chunk_paths = <<>>
        /\ DOMAIN fs \subseteq {InstructionPath}
        /\ results = <<>> /\ attempts = <<>>
        /\ calls = 0 /\ inv_calls = 0
        /\ successful_chunks = 0 /\ failed_chunks = <<>>

C23_Witness ==
    /\ chunk_size > 0
    /\ input = [t |-> "list", items |-> <<>>]
    /\ pc = "done"
    /\ exit = "no_chunks"

\* The chunks are planned: create_input_chunks returned the path of every chunk.
Planned == chunks # <<>> /\ Len(chunk_paths) = Len(chunks)

\* C24: an input that is no valid JSON or no list, and any other failure of
\* the planning, ends the run with NonRetryableError before any chunk is
\* handed to a runner: no runner is called, no remote call is made and no
\* output or log artifact is written; a runner only ever runs on a
\* complete plan whose every chunk artifact was written.
C24_PlanningFailureAborts ==
    /\ (chunk_size > 0 /\ input.t # "list" /\ pc # "start") => exit = "plan_error"
    /\ exit = "plan_error" =>
        /\ pc = "done"
        /\ ~Planned
        /\ results = <<>> /\ attempts = <<>>
        /\ calls = 0 /\ inv_calls = 0
        /\ \A p \in DOMAIN fs : p[1] \notin {"output", "log"}
    /\ (chunk_size > 0 /\ (pc \in Running \cup {"ret"} \/ results # <<>>)) =>
        /\ Planned
        /\ input.t = "list"
        /\ chunks = chunk_json_data(input.items, chunk_size)
        /\ \A k \in 1..Len(chunks) : chunk_paths[k] = chunk_input_path(k)

C24_Witness ==
    /\ exit = "plan_error"
    /\ input.t = "list"
    /\ Len(chunks) = 3
    /\ Len(chunk_paths) = 2
    /\ Exists(fs, chunk_input_path(2))

\* C25: chunk_size <= 0 turns the planning off: no chunk and no chunk
\* artifact is made, and the attempt loop runs once, over the whole input
\* (its artifacts are those of the whole input, and it returns at most
\* once); chunk_size > 0 takes the planning path, where a runner runs only
\* on a planned chunk and the run never ends as a single-file run.
C25_ModeSelection ==
    /\ (chunk_size <= 0 /\ pc # "start") =>
        /\ pc \in Running \cup {"ret", "done"}
        /\ exit \in {"none", "single", "interrupted"}
        /\ chunks = <<>> /\ chunk_paths = <<>>
        /\ i = 0
        /\ \A p \in DOMAIN fs : p = InstructionPath \/ (p[1] \in {"output", "log"} /\ p[2] = 0)
        /\ Len(results) <= 1
        /\ Len(attempts) <= max_retries + 1
        /\ successful_chunks = 0 /\ failed_chunks = <<>>
        /\ exit = "single" <=> (pc = "done" /\ Len(results) = 1)
    /\ (chunk_size > 0 /\ pc # "start") =>
        /\ exit \in {"none", "plan_error", "no_chunks", "summary", "interrupted"}
        /\ (pc \in Running \cup {"ret"} \/ results # <<>>) =>
               /\ Planned
               /\ chunks = chunk_json_data(input.items, chunk_size)
               /\ i >= 1
        /\ \A p \in DOMAIN fs : p = InstructionPath \/ p[2] >= 1

C25_Witness ==
    /\ chunk_size < 0
    /\ input.t = "list" /\ Len(input.items) = MaxItems
    /\ pc = "done" /\ exit = "single"
    /\ results = <<"True">>
    /\ Len(attempts) = 2
    /\ DOMAIN fs = {InstructionPath, <<"output", 0>>, <<"log", 0, 1>>, <<"log", 0, 2>>}

\* The names of the artifacts of chunk k: input, output, one log an attempt.
ChunkNames(k) ==
    {chunk_input_name(args, k), chunk_output_name(args, k)}
        \cup {attempt_log_name(args, k, n) : n \in 0..max_retries}

\* The artifacts a step writes or modifies.
Written == {p \in DOMAIN fs' : p \notin DOMAIN fs \/ fs'[p] # fs[p]}

\* C26: the chunks own disjoint artifacts: the names of the input, the
\* output and the attempt logs of chunk j differ from all those of chunk k
\* for j # k, and a step taken while chunk i is planned or processed writes
\* only artifacts of chunk i, none of which bears a name of another chunk.
C26_DisjointArtifacts ==
    [][\A p \in Written :
          /\ \A j, k \in 1..Len(chunks) : j # k => ChunkNames(j) \cap ChunkNames(k) = {}
          /\ p[2] = i
          /\ pc = "plan" => p = chunk_input_path(i)
          /\ pc # "plan" =>
                /\ pc \in {"save", "validate"}
                /\ p \in {chunk_output_path(i), attempt_log_path(i, overall_attempt)}
          /\ NameOf(args, p) \in ChunkNames(i)
          /\ \A j \in 1..Len(chunks) : j # i => NameOf(args, p) \notin ChunkNames(j)]_vars

C26_Witness ==
    /\ args.input = args.output
    /\ args.log.stem = <<"a", "-", "1">>
    /\ args.log.dir = args.input.dir
    /\ Len(chunks) = 3
    /\ i = 3
    /\ {chunk_output_path(1), chunk_output_path(2), chunk_output_path(3),
        attempt_log_path(1, 0), attempt_log_path(3, 0)} \subseteq DOMAIN fs

\* The chunks the tally counts, and the tally the first n returns call for.
Counted == successful_chunks + Len(failed_chunks)
SucceededIn(n) == {k \in 1..n : results[k] = "True"}
FailedIn(n) == {k \in 1..n : results[k] # "True"}

\* Every index is counted at most once; failed_chunks is strictly ascending.
TallyWellFormed ==
    /\ \A a, b \in 1..Len(failed_chunks) : a < b => failed_chunks[a] < failed_chunks[b]
    /\ \A a \in 1..Len(failed_chunks) :
          /\ failed_chunks[a] \in 1..Len(results)
          /\ results[failed_chunks[a]] # "True"

\* C27 as stated: wherever process_chunks stands, but for the one statement
\* between the runner's return and the tally, the tally counts every chunk
\* whose runner has returned, and it is well formed.
C27_TallyCountsReturned ==
    (Planned /\ pc # "ret") =>
        /\ Counted = Len(results)
        /\ TallyWellFormed

\* C27, amended: the tally counts the chunks whose tally statement has run,
\* which are the first i - 1, and chunk i too when an interruption arrived
\* right after its tally statement: all the runners that returned, but for
\* the last one between its return and the tally statement, and for good
\* when an interruption arrives at that point; the tally is well formed and
\* is the one these returns call for.
C27_TallyCountsTaken ==
    Planned =>
        /\ Counted \in {i - 1, i}
        /\ Counted = i => (interrupted /\ Len(results) = i)
        /\ Len(results) \in {i - 1, i}
        /\ Len(results) = i => (pc = "ret" \/ interrupted)
        /\ (pc = "ret") => (Len(results) = i /\ Counted = i - 1)
        /\ successful_chunks = Cardinality(SucceededIn(Counted))
        /\ {failed_chunks[a] : a \in 1..Len(failed_chunks)} = FailedIn(Counted)
        /\ TallyWellFormed

C27_Witness ==
    /\ Planned
    /\ interrupted
    /\ exit = "summary"
    /\ results = <<"False", "True">>
    /\ successful_chunks = 0
    /\ failed_chunks = <<1>>
    /\ Exists(fs, chunk_output_path(2))

\* C28: no step of a run deletes an artifact: every chunk input, output and
\* attempt log that exists before a step exists after it, so whatever
\* existed at some point of the run exists at its end; the chunk inputs of
\* a complete plan are all there at every later point.
C28_NoDeletion ==
    [][/\ DOMAIN fs \subseteq DOMAIN fs'
       /\ Planned => \A k \in 1..Len(chunks) : Exists(fs', chunk_input_path(k))]_vars

C28_Witness ==
    /\ pc = "done"
    /\ interrupted
    /\ results = <<"True", "False">>
    /\ Len(chunks) = 3
    /\ DOMAIN fs = {InstructionPath, chunk_input_path(1), chunk_input_path(2),
                     chunk_input_path(3), chunk_output_path(1),
                     attempt_log_path(1, 0), attempt_log_path(2, 0)}

Raw(n) == Min(DEFAULT_BASE_DELAY * Pow(DEFAULT_BACKOFF_FACTOR, n), DEFAULT_MAX_DELAY)

\* C30: for the base, factor and max of the program, calculate_delay(n) is
\* at least raw(n) and at most 1.1 * raw(n), raw(n) is at most max, and from
\* one attempt to the next raw does not decrease, nor does the delay
\* itself, whatever the two draws, as long as raw(n) is below max.
C30_BackoffEnvelope ==
    /\ \A k \in 1..Len(delay) :
          /\ Raw(delay[k].attempt) <= DEFAULT_MAX_DELAY
          /\ delay[k].value >= Raw(delay[k].attempt) * DelayUnit
          /\ 10 * delay[k].value <= 11 * Raw(delay[k].attempt) * DelayUnit
    /\ Len(delay) = 2 =>
          /\ delay[2].attempt = delay[1].attempt + 1
          /\ Raw(delay[1].attempt) <= Raw(delay[2].attempt)
          /\ Raw(delay[1].attempt) < DEFAULT_MAX_DELAY => delay[1].value <= delay[2].value

C30_Witness ==
    /\ Len(delay) = 2
    /\ delay[1].attempt = 5 /\ delay[1].u = Resolution - 1
    /\ delay[2].attempt = 6 /\ delay[2].u = 0
    /\ delay[1].value > Raw(5) * DelayUnit
    /\ delay[2].value = DEFAULT_MAX_DELAY * DelayUnit

\* A step that ends an outer attempt: the loop body decides what comes next.
Decision == pc \in {"invoked", "validate"} /\ pc' \in {"ret", "outer_sleep"}

\* What a step does when the loop body decided next.
Taken(next) ==
    CASE next = "return True" ->
             pc' = "ret" /\ ret' = "True" /\ outer_sleeps' = outer_sleeps
      [] next = "return False" ->
             pc' = "ret" /\ ret' = "False" /\ outer_sleeps' = outer_sleeps
      [] next = "sleep" ->
             pc' = "outer_sleep" /\ ret' = ret /\ overall_attempt < max_retries
      [] OTHER -> FALSE

\* A run of the retry machine that has returned after at least one attempt:
\* one sleep between two attempts, every attempt but the last a retryable
\* failure, the last one a success (True), a terminal failure, or a
\* retryable failure of attempt max_retries (False).
RunShape ==
    LET n == Len(attempts)
    IN /\ n <= max_retries + 1
       /\ outer_sleeps = n - 1
       /\ overall_attempt = n - 1
       /\ \A k \in 1..(n - 1) : attempts[k].outcome = "Retryable"
       /\ ret = "True" <=> attempts[n].outcome = "Success"
       /\ attempts[n].outcome = "Retryable" => n = max_retries + 1
       /\ \A k \in 1..n : attempts[k].text /\ ~attempts[k].log_failed
                               => Exists(fs, attempt_log_path(i, k - 1))

\* C31: the single-file path (execute_mode_with_full_retry) and the chunk
\* runner (execute_single_chunk) are the same retry machine.  Both call the
\* same invoker, validator and delay function, so from the same state and the
\* same remote result they differ at most in what their own copy of the loop
\* body decides at the end of an attempt: in either mode, every step that
\* ends an attempt is the step both copies decide for the attempt's outcome,
\* index and budget, and a run that returned has the same shape (attempts,
\* sleeps, logs, outcome) whichever path ran it.
C31_SameRetryMachine ==
    /\ []((pc = "ret" /\ attempts # <<>>) => RunShape)
    /\ [][Decision =>
            LET o == attempts'[Len(attempts')].outcome
                chunked == outer_next(o, overall_attempt, max_retries)
                single == full_retry_next(o, overall_attempt, max_retries)
            IN chunked = single /\ Taken(chunked) /\ Taken(single)]_vars

\* The single-file path succeeded on its second attempt or later: a
\* retryable failure, a sleep, and a success.
C31_Witness ==
    /\ ~chunking_enabled(chunk_size)
    /\ pc = "ret"
    /\ ret = "True"
    /\ outer_sleeps >= 1
    /\ Len(attempts) = outer_sleeps + 1
    /\ attempts[1].outcome = "Retryable"

\* The artifacts chunk k has on disk: its attempt logs and its output.
ArtifactsOf(k) == LogsOf(k) \cup {p \in DOMAIN fs : p = chunk_output_path(k)}

\* C32: if the input artifact of a chunk or the instruction document cannot
\* be read, the chunk runner returns False at once: the step that starts the
\* chunk ends it, with no remote call, no sleep, and no log or output
\* written; such a chunk has no artifact when it is counted.  When the
\* instruction document is missing, a run that is not interrupted visits
\* every chunk and ends with no chunk succeeded and every index, in order,
\* in failed_chunks.
C32_UnreadableInput ==
    /\ [][(pc = "loop" /\ ReadFails(i) /\ pc' # "done") =>
              /\ pc' = "ret" /\ ret' = "False" /\ i' = i
              /\ results' = Append(results, "False")
              /\ calls' = 0 /\ outer_sleeps' = 0 /\ out_writes' = 0
              /\ inv_calls' = inv_calls /\ inv_sleeps' = inv_sleeps
              /\ attempts' = <<>>
              /\ fs' = fs]_vars
    /\ []((pc = "ret" /\ ReadFails(i)) => ArtifactsOf(i) = {})
    /\ []((pc = "done" /\ exit = "summary" /\ ~interrupted /\ ~Exists(fs, InstructionPath)) =>
              /\ Len(results) = NumChunks
              /\ successful_chunks = 0
              /\ failed_chunks = [k \in 1..NumChunks |-> k])

\* The instruction document is there, the first chunk succeeded, and the
\* input of the second chunk, which is gone, made its runner return False
\* before any call.
C32_Witness ==
    /\ pc = "ret"
    /\ i = 2
    /\ Exists(fs, InstructionPath)
    /\ ~Exists(fs, chunk_paths[2])
    /\ results = <<"True", "False">>
    /\ calls = 0
    /\ ArtifactsOf(1) # {}

\* The validator returns from a response that validates in full without
\* having written the output: the write of the output failed.
OutputWriteFails ==
    /\ pc = "validate"
    /\ pc' \in {"ret", "outer_sleep"}
    /\ validate_json(raw_output, mode).success
    /\ out_writes' = out_writes

\* C33: if the response validates in full but the write of the output
\* artifact fails, save_and_validate_json reports a terminal failure, and
\* the runner returns False at once: no sleep, no call, no further attempt,
\* also when outer attempts remain.
C33_OutputWriteFailureIsTerminal ==
    [][OutputWriteFails =>
          /\ attempts'[Len(attempts')].outcome = "Terminal"
          /\ pc' = "ret"
          /\ ret' = "False"
          /\ results' = Append(results, "False")
          /\ overall_attempt' = overall_attempt
          /\ outer_sleeps' = outer_sleeps
          /\ calls' = calls]_vars

\* The runner returned False from its first attempt, whose response
\* validates in full, with an attempt to spare and no output on disk.
C33_Witness ==
    /\ pc = "ret"
    /\ ret = "False"
    /\ overall_attempt = 0
    /\ max_retries >= 1
    /\ Len(attempts) = 1
    /\ LastAttempt.outcome = "Terminal"
    /\ validate_json(raw_output, mode).success
    /\ out_writes = 0
    /\ ~Exists(fs, chunk_output_path(i))

\* C34: a failure to write the attempt log does not change the outcome of
\* the attempt.  Whether the log was written or not, the validator's result
\* and its output write are those of the raw text alone: the output is
\* written only for a text that validates, with the items of that text, and
\* gives a success; without an output write the result is the failure of
\* the text (terminal for a text that validates and could not be saved).
C34_LogFailureIsHarmless ==
    [][(pc = "validate" /\ pc' \in {"ret", "outer_sleep"}) =>
          LET v == validate_json(raw_output, mode)
              n == Len(attempts)
          IN /\ Len(attempts') = n
             /\ attempts'[n].log_failed = attempts[n].log_failed
             /\ attempts'[n].text
             /\ IF out_writes' = out_writes + 1
                THEN /\ v.success
                     /\ attempts'[n].outcome = "Success"
                     /\ fs' = WriteText(fs, chunk_output_path(i), v.items)
                ELSE /\ out_writes' = out_writes
                     /\ fs' = fs
                     /\ attempts'[n].outcome = validation_outcome(FALSE, v.is_retryable)]_vars

\* The validator succeeded and wrote the output for an attempt whose log
\* could not be written: the success has no persisted log.
C34_Witness ==
    /\ pc = "ret"
    /\ ret = "True"
    /\ LastAttempt.log_failed
    /\ LastAttempt.outcome = "Success"
    /\ ~Exists(fs, attempt_log_path(i, overall_attempt))
    /\ Exists(fs, chunk_output_path(i))
    /\ fs[chunk_output_path(i)] = validate_json(raw_output, mode).items

\* C35 as stated: after an interruption at chunk i of N the tally counts
\* i - 1 < N chunks and index i is not in failed_chunks.
C35_InterruptedChunkUncounted ==
    (Planned /\ interrupted) =>
        /\ Counted = i - 1
        /\ i - 1 < NumChunks
        /\ \A a \in 1..Len(failed_chunks) : failed_chunks[a] # i

\* C35, amended: after an interruption at chunk i of N the chunks before i
\* are all counted and no chunk after i is.  Chunk i is counted neither as
\* succeeded nor as failed when the interruption arrived before its tally
\* statement, while its runner ran or right after it returned, even if its
\* output was written; when the interruption arrived after the tally
\* statement, the runner had returned and chunk i is counted by its result.
C35_InterruptedChunkCountedOnlyIfTallied ==
    (Planned /\ interrupted) =>
        /\ i \in 1..NumChunks
        /\ Counted \in {i - 1, i}
        /\ Counted <= Len(results)
        /\ \A a \in 1..Len(failed_chunks) : failed_chunks[a] <= Counted
        /\ successful_chunks = Cardinality(SucceededIn(Counted))
        /\ Len(results) < i =>
              /\ Counted = i - 1
              /\ Counted < NumChunks
        /\ Counted = i =>
              /\ Len(results) = i
              /\ IF results[i] = "True"
                 THEN /\ successful_chunks = Cardinality(SucceededIn(i - 1)) + 1
                      /\ \A a \in 1..Len(failed_chunks) : failed_chunks[a] # i
                 ELSE /\ successful_chunks = Cardinality(SucceededIn(i - 1))
                      /\ failed_chunks # <<>>
                      /\ failed_chunks[Len(failed_chunks)] = i

\* The run was interrupted at chunk 2 of 2 after its output was written:
\* the summary counts chunk 1 only.
C35_Witness ==
    /\ Planned
    /\ interrupted
    /\ exit = "summary"
    /\ NumChunks = 2
    /\ i = 2
    /\ Counted = 1
    /\ Exists(fs, chunk_output_path(2))

\* The value the response gave to a key of an element (the last one, when
\* the key is written twice).
Sent(e, key) == Lookup(e.pairs, key)

\* C36: on success the output holds one item for each element of the
\* response array, in the order of the response: item k has the value
\* element k gave to each declared key, as the declared type.  Nothing is
\* dropped, merged or reordered, whatever the elements are, and nothing is
\* compared with the input of the chunk.
C36_OneItemPerElement ==
    (ValidationDone /\ LastAttempt.outcome = "Success") =>
        LET out == fs[chunk_output_path(i)]
            resp == Parsed.items
            sch == Schema(mode)
        IN /\ Len(out) = Len(resp)
           /\ \A k \in 1..Len(resp) :
                 /\ Len(out[k]) = Len(sch)
                 /\ \A f \in 1..Len(sch) :
                       /\ out[k][f][1] = sch[f][1]
                       /\ out[k][f][2].v = Sent(resp[k], sch[f][1]).v
                       /\ out[k][f][2].ty = sch[f][2]

\* A response of three elements for a chunk of one item: the first two are
\* the same, the third names another note than the first; all three are in
\* the output, in that order.
C36_Witness ==
    /\ ValidationDone
    /\ LastAttempt.outcome = "Success"
    /\ Len(chunks[i]) = 1
    /\ Len(Parsed.items) = 3
    /\ Parsed.items[1] = Parsed.items[2]
    /\ Sent(Parsed.items[3], "noteId").v # Sent(Parsed.items[1], "noteId").v
    /\ Len(fs[chunk_output_path(i)]) = 3
    /\ fs[chunk_output_path(i)][3][1][2].v = Sent(Parsed.items[3], "noteId").v

\* The step that ends outer attempt overall_attempt of the chunk runner with
\* a retryable failure.
RetryableFailure ==
    /\ Decision
    /\ attempts'[Len(attempts')].outcome = "Retryable"

\* C37: the chunk runner sleeps only between two outer attempts.  A
\* retryable failure of attempt a < max_retries starts one sleep, whose
\* delay is calculate_delay of index a with the default base, maximum and
\* factor; a retryable failure of attempt max_retries returns False and
\* starts no sleep; no other step starts a sleep; the step after a sleep
\* starts attempt a + 1 (or ends the chunk when the client cannot be
\* made); a chunk never takes more than max_retries sleeps.
C37_SleepBetweenAttempts ==
    /\ [][(pc # "outer_sleep" /\ pc' = "outer_sleep") =>
              (RetryableFailure /\ overall_attempt < max_retries)]_vars
    /\ [][(RetryableFailure /\ overall_attempt < max_retries) =>
              /\ pc' = "outer_sleep"
              /\ overall_attempt' = overall_attempt
              /\ outer_sleeps' = outer_sleeps
              /\ Len(delay') = 1
              /\ delay'[1].attempt = overall_attempt
              /\ delay'[1].u \in 0..(Resolution - 1)
              /\ delay'[1].value = calculate_delay(overall_attempt, DEFAULT_BASE_DELAY,
                                       DEFAULT_MAX_DELAY, DEFAULT_BACKOFF_FACTOR, delay'[1].u)]_vars
    /\ [][(RetryableFailure /\ overall_attempt >= max_retries) =>
              /\ overall_attempt = max_retries
              /\ pc' = "ret"
              /\ ret' = "False"
              /\ outer_sleeps' = outer_sleeps
              /\ delay' = delay]_vars
    /\ [][(pc = "outer_sleep" /\ pc' \notin {"outer_sleep", "summary"}) =>
              /\ outer_sleeps' = outer_sleeps + 1
              /\ overall_attempt' = overall_attempt + 1
              /\ overall_attempt' <= max_retries
              /\ pc' \in {"call", "ret"}]_vars
    /\ [](pc \in Running \cup {"ret"} =>
              /\ outer_sleeps = overall_attempt
              /\ outer_sleeps <= IF max_retries < 0 THEN 0 ELSE max_retries)

\* The runner returned False from the retryable failure of its last
\* attempt, after one sleep for each attempt before it.
C37_Witness ==
    /\ pc = "ret"
    /\ ret = "False"
    /\ max_retries = MaxRetries
    /\ overall_attempt = max_retries
    /\ outer_sleeps = max_retries
    /\ Len(attempts) = max_retries + 1
    /\ \A k \in 1..Len(attempts) : attempts[k].outcome = "Retryable"

UpdaterModes == {"question-tagging", "tag-auditor", "extra-or-grammar"}

\* The files process_files is through with, as indexes of the report.
FinishedFiles == {k \in 1..Len(report) : pc \in {"file", "done"} \/ k < Len(report)}

\* The file parsed to a non-empty list of one mode, and each of its entries
\* was validated and applied to the store with success.
AllApplied(r) ==
    /\ r.content.t = "list"
    /\ r.content.items # <<>>
    /\ r.mode \in UpdaterModes
    /\ Len(r.successes) = Len(r.content.items)
    /\ \A j \in 1..Len(r.successes) : r.successes[j]

\* C38 as stated: an output file process_files is through with is deleted
\* if and only if it parsed to a non-empty list of a consistent mode and
\* every entry was validated and applied; the input file of the same name
\* is deleted with it; a file of a consistent mode has all its entries
\* processed also when some of them fail.
C38_DeletedIffAllApplied ==
    \A k \in FinishedFiles :
        LET r == report[k]
        IN /\ ~Exists(fs, OutputFile(r.name)) <=> AllApplied(r)
           /\ AllApplied(r) => ~Exists(fs, InputFile(r.name))
           /\ r.mode \in UpdaterModes => Len(r.successes) = Len(r.content.items)

\* C38 amended: process_files tries to delete a file if and only if the
\* file parsed to a non-empty list of a consistent mode and every entry
\* was validated and applied: it then unlinks the input file of the same
\* name if there is one, and then the output file, and a file whose unlink
\* fails stays; no other file is ever removed, and a file of a consistent
\* mode has all its entries processed also when some of them fail.
C38_DeletedOnlyIfAllApplied ==
    /\ [](\A k \in FinishedFiles :
            LET r == report[k]
                n == Len(r.unlinked)
            IN /\ r.unlinked # <<>> <=> AllApplied(r)
               /\ AllApplied(r) =>
                    /\ n \in {1, 2}
                    /\ r.unlinked[n].path = OutputFile(r.name)
                    /\ n = 2 => r.unlinked[1].path = InputFile(r.name)
                    /\ n = 1 => ~Exists(fs, InputFile(r.name))
               /\ \A j \in 1..n : r.unlinked[j].ok <=> ~Exists(fs, r.unlinked[j].path)
               /\ ~AllApplied(r) => Exists(fs, OutputFile(r.name))
               /\ r.mode \in UpdaterModes => Len(r.successes) = Len(r.content.items))
    /\ [][\A p \in DOMAIN fs \ DOMAIN fs' :
              /\ pc = "finish"
              /\ AllApplied(report[Len(report)])
              /\ p \in {InputFile(json_files[file]), OutputFile(json_files[file])}]_vars

\* Two files were processed: the entry of the first failed and the file is
\* kept with its input file; the entry of the second was applied, and its
\* input file and the file itself were deleted.
C38_Witness ==
    /\ pc = "done"
    /\ Len(report) = 2
    /\ report[1].mode \in UpdaterModes
    /\ report[1].successes = <<FALSE>>
    /\ Exists(fs, OutputFile(report[1].name))
    /\ Exists(fs, InputFile(report[1].name))
    /\ report[2].successes = <<TRUE>>
    /\ Len(report[2].unlinked) = 2
    /\ ~Exists(fs, OutputFile(report[2].name))
    /\ ~Exists(fs, InputFile(report[2].name))

\* C40: in process_question_tagging, when the note has a tag that starts
\* with the subject of the new tag, a removeTags request for such a tag is
\* issued, and before the addTags request; when the removal fails no
\* addTags request is issued and the entry is reported as failed; an entry
\* whose subject is not in SUBJECTS issues no request at all.
C40_RemoveBeforeAdd ==
    [][(pc = "entry" /\ mode = "question-tagging" /\ schema_accepts(entries[entry], mode)) =>
          LET e == entries[entry]
              subject == split_first(e.newTag.v)
              olds == {t \in TagsOf(notes, e.noteId.v) : startswith(t, subject)}
              reqs == requests'
              adds == {j \in 1..Len(reqs) : reqs[j].action = "addTags"}
              removes == {j \in 1..Len(reqs) : reqs[j].action = "removeTags"}
              reported == report'[Len(report')].successes
          IN /\ subject \notin SUBJECTS => reqs = <<>>
             /\ (subject \in SUBJECTS /\ olds # {}) =>
                  /\ removes # {}
                  /\ \A j \in removes : reqs[j].tags \in olds
                  /\ \A a \in adds : \E j \in removes : j < a
             /\ (\E j \in removes : ~reqs[j].ok) =>
                  /\ adds = {}
                  /\ ~reported[Len(reported)]]_vars

\* merge_json_files has written the merged file.
Merged == pc = "returned" /\ part_files # <<>>

\* The parts split_json_file makes of the list it read are all on disk.
PartsWritten ==
    \A k \in 1..Len(split_chunks(split_data)) :
        /\ Exists(fs, part_file(k))
        /\ fs[part_file(k)] = [t |-> "list", items |-> split_chunks(split_data)[k]]

\* What split and merge leave alone: split removes the file only when all
\* its parts are written, merge reads the parts in the numeric order of
\* their suffix and removes none, and process_folder does nothing when
\* both the file and parts are there.
SplitMergeFrame ==
    /\ [](part_files # <<>> => part_files = [k \in 1..Len(part_files) |-> part_file(k)])
    /\ [](Merged => (Exists(fs, filename) /\ PartsWritten))
    /\ [][(Exists(fs, filename) /\ ~Exists(fs', filename)) =>
              (pc = "split_unlink" /\ PartsWritten /\ PartsWritten')]_vars
    /\ [][(pc = "merge_read" \/ pc = "merge_write") =>
              (\A p \in glob_parts(fs) : Exists(fs', p) /\ fs[p] = fs'[p])]_vars
    /\ [][(pc = "process_folder" /\ Exists(fs, filename) /\ glob_parts(fs) # {}) =>
              (pc' = "returned" /\ fs' = fs)]_vars

\* C39 as stated: after split_json_file and merge_json_files the file holds
\* the list split_json_file read, same items in the same order, also with
\* 10 parts or more; the file is removed only when all parts are written,
\* merge leaves the parts, and a further process_folder does nothing.
C39_SplitMergeRoundTrip ==
    /\ [](Merged => fs[filename] = [t |-> "list", items |-> split_data])
    /\ SplitMergeFrame

\* A list of items of split_data in their order, with each of the first n
\* parts wholly in it or wholly out of it.
KeptParts(m, n) ==
    /\ \A j \in 1..(Len(m) - 1) : m[j] < m[j + 1]
    /\ \A j \in 1..Len(m) : m[j] \in 1..Min(Len(split_data), n * CHUNK_SIZE)
    /\ LET kept == {m[j] : j \in 1..Len(m)}
           parts == split_chunks(split_data)
       IN \A k \in 1..n :
            LET part == {parts[k][j] : j \in 1..Len(parts[k])}
            IN part \subseteq kept \/ part \cap kept = {}

\* C39 amended: merge_json_files appends the items of each part it can
\* read, in the numeric order of the parts, and skips a part whose read
\* fails; after split_json_file and merge_json_files the file holds the
\* items of the parts that were read in their original order, and it is
\* the original list exactly when no part was skipped, also with 10 parts
\* or more; the file is removed only when all parts are written, merge
\* leaves the parts, and a further process_folder does nothing.
C39_SplitMergeRoundTripOfReadParts ==
    /\ [][pc = "merge_read" =>
              \/ merged_data' = merged_data \o split_chunks(split_data)[pf]
              \/ merged_data' = merged_data]_vars
    /\ [](pc \in {"merge_read", "merge_write"} => KeptParts(merged_data, pf - 1))
    /\ [](Merged =>
            /\ fs[filename] = [t |-> "list", items |-> merged_data]
            /\ KeptParts(merged_data, Len(part_files))
            /\ Len(merged_data) = Len(split_data) => merged_data = split_data)
    /\ SplitMergeFrame

\* A list of MaxParts parts, more than 9, was split and merged with every
\* part read: the file holds the list again, beside its parts.
C39_Witness ==
    /\ Merged
    /\ Len(part_files) = MaxParts
    /\ Len(part_files) >= 10
    /\ ~Exists(fs, part_file(MaxParts + 1))
    /\ PartsWritten
    /\ fs[filename] = [t |-> "list", items |-> split_data]
    /\ Len(split_data) > 9 * CHUNK_SIZE
====
